---- MODULE Spec2Model ----
(***************************************************************************)
(* Upload-session lifecycle and block-staging coordinator of upload_app:   *)
(* the FastAPI handlers of backend/main.py over the session store of       *)
(* backend/storage.py and the retrying blob handler of                     *)
(* backend/azure_handler.py.                                               *)
(*                                                                         *)
(* Every handler is a coroutine on one asyncio event loop.  A step of the  *)
(* model is the piece of a handler that runs between two suspension        *)
(* points.  The blob calls (run_in_executor) and the backoff sleeps always *)
(* suspend.  A store call suspends with RedisStorage (it awaits the redis  *)
(* client) and does not with FileStorage (its coroutines await nothing     *)
(* that is pending, so they run to completion inside the caller's step):   *)
(* the variable running names the coroutine that holds the loop.           *)
(***************************************************************************)
EXTENDS Integers, Sequences, FiniteSets, TLC

\* ---- bounds of the model ----
NumProcs == 2        \* request handlers that may be in flight together
NumUploads == 2      \* upload ids uuid4() hands out in one behaviour
NumChunks == 2       \* chunk indices 0 .. NumChunks-1 a client submits
MaxCalls == 4        \* requests issued in one behaviour
ChunkSize == 2       \* settings.chunk_size, scaled down
MaxFileSize == 4     \* settings.max_file_size, scaled down
MaxTextLen == 2      \* length of the upload id texts block ids are derived from
MaxIndex == 11       \* chunk indices -MaxIndex .. MaxIndex block ids are derived from

\* ---- constants of the program ----
MaxRetries == 3
InitialRetryDelay == 1

Procs == 1..NumProcs
UploadIds == 1..NumUploads
ChunkIndices == 0..(NumChunks - 1)
Filenames == {"f1", "f2"}
\* the init requests clients send: <<filename, file_size>>
InitRequests == {<<"f1", 0>>, <<"f2", MaxFileSize>>, <<"f1", MaxFileSize + 1>>}
Backends == {"file", "redis"}

VARIABLES
    store,           \* the session store: upload id -> persisted dict
    blob_staged,     \* blob backend: set of <<blob name, block id>> staged
    blob_committed,  \* blob backend: blob name -> <<>> or <<committed block list>>
    calls,           \* per handler slot: the request being served and its locals
    nextId,          \* the next uuid4() value (uuids are modelled in generation order)
    ncalls,          \* requests issued so far
    running,         \* the handler holding the event loop (0: none)
    backend,         \* which StorageBackend storage_backend is
    overlap          \* whether clients issue requests while another is in flight

vars == <<store, blob_staged, blob_committed, calls, nextId, ncalls, running, backend, overlap>>

\* ---------------------------------------------------------------------------
\* storage.py: UploadMetadata
\* ---------------------------------------------------------------------------

\* mutant: the number of blocks is taken for the number of bytes
ProgressOf_CountOnly(n, chunk_size, file_size) ==
    IF file_size = 0 THEN <<0, 1>>
    ELSE IF file_size > 0 /\ n >= file_size
         THEN <<100, 1>>
         ELSE <<n * 100, file_size>>

\* min(100.0, (bytes_uploaded / file_size) * 100) as the fraction <<num, den>>
ProgressOf(n, chunk_size, file_size) ==
    IF file_size = 0 THEN <<0, 1>>
    ELSE LET bytes_uploaded == n * chunk_size
         IN  IF file_size > 0 /\ bytes_uploaded >= file_size
             THEN <<100, 1>>
             ELSE <<bytes_uploaded * 100, file_size>>

UploadMetadata(upload_id, filename, file_size, chunk_size, block_ids, completed, timestamp) ==
    [upload_id |-> upload_id, filename |-> filename, file_size |-> file_size,
     chunk_size |-> chunk_size, block_ids |-> block_ids, completed |-> completed,
     timestamp |-> timestamp]

progress_percentage(m) == ProgressOf(Len(m.block_ids), m.chunk_size, m.file_size)

to_dict(m) ==
    [upload_id |-> m.upload_id, filename |-> m.filename, file_size |-> m.file_size,
     chunk_size |-> m.chunk_size, block_ids |-> m.block_ids,
     progress_percentage |-> progress_percentage(m),
     completed |-> m.completed, timestamp |-> m.timestamp]

from_dict(d) ==
    UploadMetadata(d.upload_id, d.filename, d.file_size, d.chunk_size,
                   d.block_ids, d.completed, d.timestamp)

\* ---------------------------------------------------------------------------
\* storage.py: the store primitives (FileStorage and RedisStorage share them:
\* one JSON document per upload id).  An Optional is <<>> or <<value>>.
\* ---------------------------------------------------------------------------
\* mutant: the save replaces the whole store by the one document
save_metadata_Replace(s, m) == [u \in {m.upload_id} |-> to_dict(m)]

save_metadata(s, m) ==
    [u \in (DOMAIN s) \cup {m.upload_id} |->
        IF u = m.upload_id THEN to_dict(m) ELSE s[u]]

get_metadata(s, upload_id) ==
    IF upload_id \in DOMAIN s THEN <<from_dict(s[upload_id])>> ELSE <<>>

\* mutant: the delete leaves the document in place
delete_metadata_Noop(s, upload_id) == s

\* mutant: the delete empties the store
delete_metadata_All(s, upload_id) == <<>>

delete_metadata(s, upload_id) ==
    [u \in (DOMAIN s) \ {upload_id} |-> s[u]]

\* mutant: the membership test is dropped, the block id is always appended
add_block_id_NoTest(s, upload_id, block_id) ==
    LET got == get_metadata(s, upload_id)
    IN  IF got # <<>>
        THEN <<[got[1] EXCEPT !.block_ids = Append(@, block_id)]>>
        ELSE <<>>

\* mutant: the membership test is inverted, a new block id is never appended
add_block_id_Inverted(s, upload_id, block_id) ==
    LET got == get_metadata(s, upload_id)
    IN  IF got # <<>> /\ \E k \in 1..Len(got[1].block_ids) : got[1].block_ids[k] = block_id
        THEN <<[got[1] EXCEPT !.block_ids = Append(@, block_id)]>>
        ELSE <<>>

\* mutant: the list is replaced by the new block id instead of extended
add_block_id_Overwrite(s, upload_id, block_id) ==
    LET got == get_metadata(s, upload_id)
    IN  IF got # <<>> /\ \A k \in 1..Len(got[1].block_ids) : got[1].block_ids[k] # block_id
        THEN <<[got[1] EXCEPT !.block_ids = <<block_id>>]>>
        ELSE <<>>

\* mutant: the new block id is put in front of the list
add_block_id_Prepend(s, upload_id, block_id) ==
    LET got == get_metadata(s, upload_id)
    IN  IF got # <<>> /\ \A k \in 1..Len(got[1].block_ids) : got[1].block_ids[k] # block_id
        THEN <<[got[1] EXCEPT !.block_ids = <<block_id>> \o @]>>
        ELSE <<>>

\* add_block_id, up to its save: the metadata it is about to persist, or <<>>
\* when it returns without writing
add_block_id(s, upload_id, block_id) ==
    LET got == get_metadata(s, upload_id)
    IN  IF got # <<>> /\ \A k \in 1..Len(got[1].block_ids) : got[1].block_ids[k] # block_id
        THEN <<[got[1] EXCEPT !.block_ids = Append(@, block_id)]>>
        ELSE <<>>

\* mutant: marking completed also forgets the block ids
mark_completed_ResetsBlocks(s, upload_id) ==
    LET got == get_metadata(s, upload_id)
    IN  IF got # <<>> THEN <<[got[1] EXCEPT !.completed = TRUE, !.block_ids = <<>>]>> ELSE <<>>

\* mutant: with no session stored, a completed one is made up and saved
mark_completed_Creates(s, upload_id) ==
    LET got == get_metadata(s, upload_id)
    IN  IF got # <<>> THEN <<[got[1] EXCEPT !.completed = TRUE]>>
        ELSE <<UploadMetadata(upload_id, "f1", 0, ChunkSize, <<>>, TRUE, upload_id)>>

\* mark_completed, up to its save
mark_completed(s, upload_id) ==
    LET got == get_metadata(s, upload_id)
    IN  IF got # <<>> THEN <<[got[1] EXCEPT !.completed = TRUE]>> ELSE <<>>

\* return metadata.block_ids if metadata else []
get_block_ids(s, upload_id) ==
    LET got == get_metadata(s, upload_id)
    IN  IF got # <<>> THEN got[1].block_ids ELSE <<>>

\* ---------------------------------------------------------------------------
\* main.py: helpers of the handlers
\* ---------------------------------------------------------------------------

\* base64.b64encode(f"{upload_id}_{chunk_index}") : the pair it encodes
BlockId(upload_id, chunk_index) == <<upload_id, chunk_index>>

\* the block id as the code derives it, character by character.  A text is a
\* sequence of characters; upload_id is any text, chunk_index any int.
TextAlphabet == {"1", "a", "-", "_"}

Texts == UNION {[1..n -> TextAlphabet] : n \in 1..MaxTextLen}

Indices == (0 - MaxIndex)..MaxIndex

Code ==
    [ch \in {"0", "1", "2", "3", "4", "5", "6", "7", "8", "9", "a", "-", "_"} |->
        CASE ch = "-" -> 45
          [] ch = "_" -> 95
          [] ch = "a" -> 97
          [] ch = "0" -> 48 [] ch = "1" -> 49 [] ch = "2" -> 50 [] ch = "3" -> 51
          [] ch = "4" -> 52 [] ch = "5" -> 53 [] ch = "6" -> 54 [] ch = "7" -> 55
          [] ch = "8" -> 56 [] ch = "9" -> 57]

Digit == <<"0", "1", "2", "3", "4", "5", "6", "7", "8", "9">>

\* str(i)
RECURSIVE IntText(_)
IntText(i) ==
    IF i < 0 THEN <<"-">> \o IntText(0 - i)
    ELSE IF i < 10 THEN <<Digit[i + 1]>>
    ELSE IntText(i \div 10) \o <<Digit[(i % 10) + 1]>>

\* the text of the upload id of session u (ids are numbered in generation order)
IdText(u) == IntText(u)

\* mutant: the separator is left out
FormatBlockName_NoSeparator(upload_text, chunk_index) ==
    upload_text \o IntText(chunk_index)

\* f"{upload_id}_{chunk_index}"
FormatBlockName(upload_text, chunk_index) ==
    upload_text \o <<"_">> \o IntText(chunk_index)

\* .encode(): the bytes of the text
Encode(text) == [k \in 1..Len(text) |-> Code[text[k]]]

\* base64.b64encode: each group of 3 bytes gives 4 digits of the base64
\* alphabet (written by their index 0..63), the last group is padded (64: "=")
RECURSIVE b64encode(_)
b64encode(bytes) ==
    IF Len(bytes) = 0 THEN <<>>
    ELSE LET n == Len(bytes)
             b1 == bytes[1]
             b2 == IF n >= 2 THEN bytes[2] ELSE 0
             b3 == IF n >= 3 THEN bytes[3] ELSE 0
             v == b1 * 65536 + b2 * 256 + b3
             d1 == v \div 262144
             d2 == (v \div 4096) % 64
             d3 == (v \div 64) % 64
             d4 == v % 64
         IN  IF n = 1 THEN <<d1, d2, 64, 64>>
             ELSE IF n = 2 THEN <<d1, d2, d3, 64>>
             ELSE <<d1, d2, d3, d4>> \o b64encode(SubSeq(bytes, 4, n))

EncodedBlockId(upload_text, chunk_index) ==
    b64encode(Encode(FormatBlockName(upload_text, chunk_index)))

NoResult == [code |-> 0, detail |-> "", err_attempt |-> 0, body |-> <<>>]

Response(body) == [code |-> 200, detail |-> "", err_attempt |-> 0, body |-> body]

\* raise HTTPException(status_code, detail)
HTTPError(code, detail) == [code |-> code, detail |-> detail, err_attempt |-> 0, body |-> <<>>]

\* except Exception as e: raise HTTPException(500, str(e)); the exception of a
\* blob call is named by the attempt that raised it
ServerError(detail, attempt) == [code |-> 500, detail |-> detail, err_attempt |-> attempt, body |-> <<>>]

IdleCall ==
    [op |-> "none", pc |-> "idle", upload_id |-> 0, chunk_index |-> 0,
     request |-> <<>>, metadata |-> <<>>, local |-> <<>>, attempt |-> 0, retry_delay |-> 0,
     sleeps |-> <<>>, outcomes |-> <<>>, sent |-> <<>>, writes |-> 0, store_errors |-> 0,
     result |-> NoResult]

NewCall(op, upload_id, chunk_index) ==
    [IdleCall EXCEPT !.op = op, !.upload_id = upload_id, !.chunk_index = chunk_index]

Finished(c, result) == [c EXCEPT !.pc = "done", !.result = result]

\* mutant: the handler stays where it is and makes the store call again
StoreFailed_Retry(c) == [c EXCEPT !.store_errors = @ + 1]

\* a store call of the handler raised: the except clause answers 500 at once
StoreFailed(c) ==
    Finished([c EXCEPT !.store_errors = @ + 1], ServerError("store", 0))

\* a store call that is followed by more code of the same handler: the
\* handler keeps the loop with FileStorage, and is suspended with RedisStorage
Keep(p) == IF backend = "file" THEN p ELSE 0

\* mutant: a blocking wait (time.sleep, a direct SDK call) keeps the loop
Suspended_Blocking(p) == p

\* await asyncio.sleep(...) / await loop.run_in_executor(...): the coroutine
\* is suspended and the event loop is free for the other handlers
Suspended(p) == 0

\* a response stays in its slot until the next step of the system
Upd(p, c) ==
    [q \in Procs |-> IF q = p THEN c
                     ELSE IF calls[q].pc = "done" THEN IdleCall ELSE calls[q]]

Free(p) == calls[p].pc \in {"idle", "done"}

\* a request is served in the lowest free handler slot
CanStart(p) ==
    /\ running = 0
    /\ Free(p)
    /\ \A q \in Procs : q < p => ~Free(q)
    /\ ncalls < MaxCalls
    /\ overlap \/ \A q \in Procs : Free(q)

CanStep(p, pc) ==
    /\ running \in {0, p}
    /\ calls[p].pc = pc

\* mutant: a file of exactly the maximum size is rejected too
TooLarge_Inclusive(file_size) == file_size >= MaxFileSize

\* if request.file_size > settings.max_file_size
TooLarge(file_size) == file_size > MaxFileSize

Init ==
    /\ store = <<>>
    /\ blob_staged = {}
    /\ blob_committed = [f \in Filenames |-> <<>>]
    /\ calls = [p \in Procs |-> IdleCall]
    /\ nextId = 1
    /\ ncalls = 0
    /\ running = 0
    /\ backend \in Backends
    /\ overlap \in BOOLEAN

\* clients that wait for each response before the next request
InitSeq == Init /\ overlap = FALSE

\* the sessions init_upload can have created and upload_chunk can have
\* extended: file_size is any int of the request model that passes the size
\* test (negative ones included), chunk_size any positive setting the session
\* was created under, block_ids any list of distinct block ids of the session
FileSizes == {n \in (0 - 1)..(MaxFileSize + 1) : ~TooLarge(n)}

ChunkSizes == 1..ChunkSize

BlockLists(upload_id) ==
    LET ids == {BlockId(upload_id, i) : i \in ChunkIndices}
    IN  {l \in UNION {[1..n -> ids] : n \in 0..NumChunks} :
            \A j, k \in 1..Len(l) : l[j] = l[k] => j = k}

\* one such session is in the store and one request is still to come
InitProgress ==
    \E file_size \in FileSizes, chunk_size \in ChunkSizes, block_ids \in BlockLists(1) :
        /\ store = save_metadata(<<>>,
                UploadMetadata(1, "f1", file_size, chunk_size, block_ids, FALSE, 1))
        /\ blob_staged = {<<"f1", block_ids[k]>> : k \in 1..Len(block_ids)}
        /\ blob_committed = [f \in Filenames |-> <<>>]
        /\ calls = [p \in Procs |-> IdleCall]
        /\ nextId = 2
        /\ ncalls = MaxCalls - 1
        /\ running = 0
        /\ backend \in Backends
        /\ overlap = FALSE

\* the block lists of a client that staged its first n chunks in index order
InOrderLists(upload_id) ==
    {[k \in 1..n |-> BlockId(upload_id, k - 1)] : n \in 0..NumChunks}

\* a store that holds session 1 of the largest size, with its first chunks
\* staged, committed or not, and possibly an empty session 2; two requests
\* are still to come and may overlap
InitRace ==
    \E block_ids \in InOrderLists(1), completed \in BOOLEAN, second \in BOOLEAN :
        LET first == save_metadata(<<>>,
                UploadMetadata(1, "f2", MaxFileSize, ChunkSize, block_ids, completed, 1))
        IN  /\ store = IF second
                       THEN save_metadata(first,
                                UploadMetadata(2, "f1", 0, ChunkSize, <<>>, FALSE, 2))
                       ELSE first
            /\ nextId = IF second THEN 3 ELSE 2
            /\ blob_staged = {<<"f2", block_ids[k]>> : k \in 1..Len(block_ids)}
            /\ blob_committed =
                  [f \in Filenames |-> IF f = "f2" /\ completed THEN <<block_ids>> ELSE <<>>]
            /\ calls = [p \in Procs |-> IdleCall]
            /\ ncalls = MaxCalls - 2
            /\ running = 0
            /\ backend \in Backends
            /\ overlap = TRUE

\* ---------------------------------------------------------------------------
\* main.py: init_upload
\* ---------------------------------------------------------------------------
\* the call record of an init_upload request
InitCall(upload_id, filename, file_size) ==
    [NewCall("init", upload_id, 0) EXCEPT !.request = <<filename, file_size>>]

InitUploadTooLarge(p, filename, file_size) ==
    /\ CanStart(p)
    /\ TooLarge(file_size)
    /\ calls' = Upd(p,
          Finished(InitCall(0, filename, file_size),
                   HTTPError(400, "File size exceeds maximum allowed")))
    /\ ncalls' = ncalls + 1
    /\ UNCHANGED <<store, blob_staged, blob_committed, nextId, running, backend, overlap>>

InitUpload(p, filename, file_size) ==
    /\ CanStart(p)
    /\ ~TooLarge(file_size)
    /\ nextId <= NumUploads
    /\ LET upload_id == nextId
           metadata == UploadMetadata(upload_id, filename, file_size, ChunkSize,
                                      <<>>, FALSE, upload_id)
           c == [InitCall(upload_id, filename, file_size) EXCEPT !.metadata = <<metadata>>]
       IN  \/ /\ store' = save_metadata(store, metadata)
              /\ calls' = Upd(p,
                    Finished([c EXCEPT !.writes = 1], Response(<<upload_id, ChunkSize>>)))
           \/ /\ store' = store
              /\ calls' = Upd(p, StoreFailed(c))
    /\ nextId' = nextId + 1
    /\ ncalls' = ncalls + 1
    /\ UNCHANGED <<blob_staged, blob_committed, running, backend, overlap>>

\* ---------------------------------------------------------------------------
\* azure_handler.py: the retry loop shared in shape by stage_block and
\* commit_block_list (for attempt in range(max_retries))
\* ---------------------------------------------------------------------------

\* mutant: off by one, the last failure is retried too
ShouldRetry_OffByOne(attempt) == attempt < MaxRetries

\* if attempt < max_retries - 1: sleep and retry, else: raise
ShouldRetry(attempt) == attempt < MaxRetries - 1

\* mutant: the delay is not doubled
NextDelay_Constant(retry_delay) == retry_delay

\* retry_delay *= 2
NextDelay(retry_delay) == retry_delay * 2

\* the bare raise re-raises the exception of the attempt that just failed
RaisedError(attempt) == attempt + 1

\* the call after a blob attempt: c is the call, arg what it passed, ok the outcome
Attempted(c, arg, ok) == [c EXCEPT !.outcomes = Append(@, ok), !.sent = arg]

\* mutant: the last failure is logged and swallowed, upload_chunk goes on
AfterStageFail_Swallow(c) ==
    IF ShouldRetry(c.attempt)
    THEN [c EXCEPT !.pc = "stage_sleep"]
    ELSE [c EXCEPT !.pc = "add_block_id"]

\* mutant: the last failure is logged and swallowed, complete_upload goes on
AfterCommitFail_Swallow(c) ==
    IF ShouldRetry(c.attempt)
    THEN [c EXCEPT !.pc = "commit_sleep"]
    ELSE [c EXCEPT !.pc = "mark_completed"]

\* stage_block's except branch: c is the call whose attempt just raised
AfterStageFail(c) ==
    IF ShouldRetry(c.attempt)
    THEN [c EXCEPT !.pc = "stage_sleep"]
    ELSE Finished(c, ServerError("blob", RaisedError(c.attempt)))

\* commit_block_list's except branch
AfterCommitFail(c) ==
    IF ShouldRetry(c.attempt)
    THEN [c EXCEPT !.pc = "commit_sleep"]
    ELSE Finished(c, ServerError("blob", RaisedError(c.attempt)))

\* mutant: the completed test is missing
FirstRead_NoCompletedCheck(c, next_pc) ==
    LET got == get_metadata(store, c.upload_id)
        d == [c EXCEPT !.metadata = got]
    IN  IF got = <<>>
        THEN Finished(d, HTTPError(404, "Upload session not found"))
        ELSE [d EXCEPT !.pc = next_pc, !.attempt = 0, !.retry_delay = InitialRetryDelay]

\* mutant: a complete_upload with no block recorded is refused
FirstRead_RefusesEmpty(c, next_pc) ==
    LET got == get_metadata(store, c.upload_id)
        d == [c EXCEPT !.metadata = got]
    IN  IF got = <<>>
        THEN Finished(d, HTTPError(404, "Upload session not found"))
        ELSE IF got[1].completed
        THEN Finished(d, HTTPError(400, "Upload already completed"))
        ELSE IF next_pc = "commit" /\ got[1].block_ids = <<>>
        THEN Finished(d, HTTPError(400, "No blocks uploaded"))
        ELSE [d EXCEPT !.pc = next_pc, !.attempt = 0, !.retry_delay = InitialRetryDelay]

\* the handler's first store read and its two checks (main.py 110-115, 154-159):
\* the call after them
FirstRead(c, next_pc) ==
    LET got == get_metadata(store, c.upload_id)
        d == [c EXCEPT !.metadata = got]
    IN  IF got = <<>>
        THEN Finished(d, HTTPError(404, "Upload session not found"))
        ELSE IF got[1].completed
        THEN Finished(d, HTTPError(400, "Upload already completed"))
        ELSE [d EXCEPT !.pc = next_pc, !.attempt = 0, !.retry_delay = InitialRetryDelay]

\* ---------------------------------------------------------------------------
\* main.py: upload_chunk
\* ---------------------------------------------------------------------------
UploadChunk(p, upload_id, chunk_index) ==
    /\ CanStart(p)
    /\ calls' = Upd(p, FirstRead(NewCall("chunk", upload_id, chunk_index), "stage"))
    /\ ncalls' = ncalls + 1
    /\ UNCHANGED <<store, blob_staged, blob_committed, nextId, running, backend, overlap>>

\* the first get_metadata of a handler raises: the handler answers 500
FirstReadStoreDown(p, op, upload_id, chunk_index) ==
    /\ CanStart(p)
    /\ calls' = Upd(p, StoreFailed(NewCall(op, upload_id, chunk_index)))
    /\ ncalls' = ncalls + 1
    /\ UNCHANGED <<store, blob_staged, blob_committed, nextId, running, backend, overlap>>

\* stage_block: an attempt that succeeds; upload_chunk goes on to add_block_id
StageBlockOk(p) ==
    /\ CanStep(p, "stage")
    /\ LET c == calls[p]
           block_id == BlockId(c.upload_id, c.chunk_index)
           arg == <<c.metadata[1].filename, block_id>>
       IN  /\ blob_staged' = blob_staged \cup {arg}
           /\ calls' = Upd(p, [Attempted(c, arg, TRUE) EXCEPT !.pc = "add_block_id"])
    /\ running' = Keep(p)
    /\ UNCHANGED <<store, blob_committed, nextId, ncalls, backend, overlap>>

\* stage_block: an attempt that raises
StageBlockFail(p) ==
    /\ CanStep(p, "stage")
    /\ LET c == calls[p]
           block_id == BlockId(c.upload_id, c.chunk_index)
       IN  calls' = Upd(p, AfterStageFail(
                 Attempted(c, <<c.metadata[1].filename, block_id>>, FALSE)))
    /\ running' = Suspended(p)
    /\ UNCHANGED <<store, blob_staged, blob_committed, nextId, ncalls, backend, overlap>>

\* stage_block: await asyncio.sleep(retry_delay) returns
StageBlockSleep(p) ==
    /\ CanStep(p, "stage_sleep")
    /\ calls' = Upd(p,
          [calls[p] EXCEPT !.pc = "stage", !.sleeps = Append(@, calls[p].retry_delay),
                    !.retry_delay = NextDelay(@), !.attempt = @ + 1])
    /\ running' = Suspended(p)
    /\ UNCHANGED <<store, blob_staged, blob_committed, nextId, ncalls, backend, overlap>>

\* add_block_id: its get_metadata and the membership test
AddBlockId(p) ==
    /\ CanStep(p, "add_block_id")
    /\ LET c == calls[p]
           upd == add_block_id(store, c.upload_id, BlockId(c.upload_id, c.chunk_index))
       IN  calls' = Upd(p,
              IF upd = <<>> THEN [c EXCEPT !.pc = "updated_metadata"]
              ELSE [c EXCEPT !.pc = "add_block_id_save", !.local = upd])
    /\ running' = Keep(p)
    /\ UNCHANGED <<store, blob_staged, blob_committed, nextId, ncalls, backend, overlap>>

\* add_block_id: its save_metadata
AddBlockIdSave(p) ==
    /\ CanStep(p, "add_block_id_save")
    /\ store' = save_metadata(store, calls[p].local[1])
    /\ calls' = Upd(p,
          [calls[p] EXCEPT !.pc = "updated_metadata", !.local = <<>>, !.writes = @ + 1])
    /\ running' = Keep(p)
    /\ UNCHANGED <<blob_staged, blob_committed, nextId, ncalls, backend, overlap>>

\* updated_metadata = get_metadata(upload_id) and the response
UploadChunkRespond(p) ==
    /\ CanStep(p, "updated_metadata")
    /\ LET c == calls[p]
           updated_metadata == get_metadata(store, c.upload_id)
       IN  calls' = Upd(p,
              IF updated_metadata = <<>>
              THEN Finished(c, ServerError("NoneType has no attribute progress_percentage", 0))
              ELSE Finished(c, Response(<<c.chunk_index, BlockId(c.upload_id, c.chunk_index),
                                          progress_percentage(updated_metadata[1])>>)))
    /\ running' = 0
    /\ UNCHANGED <<store, blob_staged, blob_committed, nextId, ncalls, backend, overlap>>

\* a store call made after the first one raises: the handler answers 500
StoreDown(p) ==
    /\ running \in {0, p}
    /\ calls[p].pc \in {"add_block_id", "add_block_id_save", "updated_metadata",
                        "mark_completed", "mark_completed_save", "delete_metadata"}
    /\ calls' = Upd(p, StoreFailed([calls[p] EXCEPT !.local = <<>>]))
    /\ running' = 0
    /\ UNCHANGED <<store, blob_staged, blob_committed, nextId, ncalls, backend, overlap>>

\* ---------------------------------------------------------------------------
\* main.py: complete_upload
\* ---------------------------------------------------------------------------
CompleteUpload(p, upload_id) ==
    /\ CanStart(p)
    /\ calls' = Upd(p, FirstRead(NewCall("complete", upload_id, 0), "commit"))
    /\ ncalls' = ncalls + 1
    /\ UNCHANGED <<store, blob_staged, blob_committed, nextId, running, backend, overlap>>

\* mutant: the block list is committed newest first
CommitArgs_Reversed(metadata) ==
    <<metadata.filename,
      [k \in 1..Len(metadata.block_ids) |->
          metadata.block_ids[Len(metadata.block_ids) + 1 - k]]>>

\* the arguments complete_upload passes to commit_block_list
CommitArgs(metadata) == <<metadata.filename, metadata.block_ids>>

\* commit_block_list: an attempt that succeeds; complete_upload goes on to mark_completed
CommitBlockListOk(p) ==
    /\ CanStep(p, "commit")
    /\ LET c == calls[p]
           arg == CommitArgs(c.metadata[1])
       IN  /\ blob_committed' = [blob_committed EXCEPT ![arg[1]] = <<arg[2]>>]
           /\ calls' = Upd(p, [Attempted(c, arg, TRUE) EXCEPT !.pc = "mark_completed"])
    /\ running' = Keep(p)
    /\ UNCHANGED <<store, blob_staged, nextId, ncalls, backend, overlap>>

\* commit_block_list: an attempt that raises
CommitBlockListFail(p) ==
    /\ CanStep(p, "commit")
    /\ LET c == calls[p]
       IN  calls' = Upd(p, AfterCommitFail(Attempted(c, CommitArgs(c.metadata[1]), FALSE)))
    /\ running' = Suspended(p)
    /\ UNCHANGED <<store, blob_staged, blob_committed, nextId, ncalls, backend, overlap>>

\* commit_block_list: await asyncio.sleep(retry_delay) returns
CommitBlockListSleep(p) ==
    /\ CanStep(p, "commit_sleep")
    /\ calls' = Upd(p,
          [calls[p] EXCEPT !.pc = "commit", !.sleeps = Append(@, calls[p].retry_delay),
                    !.retry_delay = NextDelay(@), !.attempt = @ + 1])
    /\ running' = Suspended(p)
    /\ UNCHANGED <<store, blob_staged, blob_committed, nextId, ncalls, backend, overlap>>

\* the summary complete_upload returns, from the metadata it read first
CompleteResponse(c) ==
    Response(<<c.upload_id, c.metadata[1].filename, c.metadata[1].file_size,
               Len(c.metadata[1].block_ids)>>)

\* mark_completed: its get_metadata; with no session it returns at once and
\* complete_upload answers 200
MarkCompleted(p) ==
    /\ CanStep(p, "mark_completed")
    /\ LET c == calls[p]
           upd == mark_completed(store, c.upload_id)
       IN  /\ calls' = Upd(p,
                 IF upd = <<>> THEN Finished(c, CompleteResponse(c))
                 ELSE [c EXCEPT !.pc = "mark_completed_save", !.local = upd])
           /\ running' = IF upd = <<>> THEN 0 ELSE Keep(p)
    /\ UNCHANGED <<store, blob_staged, blob_committed, nextId, ncalls, backend, overlap>>

\* mark_completed: its save_metadata, and the response of complete_upload
MarkCompletedSave(p) ==
    /\ CanStep(p, "mark_completed_save")
    /\ store' = save_metadata(store, calls[p].local[1])
    /\ calls' = Upd(p,
          Finished([calls[p] EXCEPT !.local = <<>>, !.writes = @ + 1], CompleteResponse(calls[p])))
    /\ running' = 0
    /\ UNCHANGED <<blob_staged, blob_committed, nextId, ncalls, backend, overlap>>

\* ---------------------------------------------------------------------------
\* main.py: get_upload_status, resume_upload
\* ---------------------------------------------------------------------------
GetUploadStatus(p, upload_id) ==
    /\ CanStart(p)
    /\ LET c == NewCall("status", upload_id, 0)
           metadata == get_metadata(store, upload_id)
       IN  calls' = Upd(p,
              IF metadata = <<>> THEN Finished(c, HTTPError(404, "Upload session not found"))
              ELSE Finished([c EXCEPT !.metadata = metadata], Response(<<to_dict(metadata[1])>>)))
    /\ ncalls' = ncalls + 1
    /\ UNCHANGED <<store, blob_staged, blob_committed, nextId, running, backend, overlap>>

\* mutant: the block ids are left out of the answer
ResumeResponse_NoBlocks(upload_id, metadata) ==
    Response(<<upload_id, metadata.filename, metadata.file_size, metadata.chunk_size,
               Len(metadata.block_ids), <<>>, progress_percentage(metadata)>>)

\* the body resume_upload returns: upload_id, filename, file_size, chunk_size,
\* completed_chunks, block_ids, progress_percentage
ResumeResponse(upload_id, metadata) ==
    Response(<<upload_id, metadata.filename, metadata.file_size, metadata.chunk_size,
               Len(metadata.block_ids), metadata.block_ids, progress_percentage(metadata)>>)

ResumeUpload(p, upload_id) ==
    /\ CanStart(p)
    /\ LET c == NewCall("resume", upload_id, 0)
           metadata == get_metadata(store, upload_id)
       IN  calls' = Upd(p,
              IF metadata = <<>> THEN Finished(c, HTTPError(404, "Upload session not found"))
              ELSE Finished([c EXCEPT !.metadata = metadata],
                            ResumeResponse(upload_id, metadata[1])))
    /\ ncalls' = ncalls + 1
    /\ UNCHANGED <<store, blob_staged, blob_committed, nextId, running, backend, overlap>>

\* ---------------------------------------------------------------------------
\* main.py: delete_upload
\* ---------------------------------------------------------------------------
DeleteUpload(p, upload_id) ==
    /\ CanStart(p)
    /\ LET c == NewCall("delete", upload_id, 0)
           metadata == get_metadata(store, upload_id)
       IN  /\ calls' = Upd(p,
                 IF metadata = <<>> THEN Finished(c, HTTPError(404, "Upload session not found"))
                 ELSE [c EXCEPT !.pc = "delete_metadata", !.metadata = metadata])
           /\ running' = IF metadata = <<>> THEN 0 ELSE Keep(p)
    /\ ncalls' = ncalls + 1
    /\ UNCHANGED <<store, blob_staged, blob_committed, nextId, backend, overlap>>

\* delete_metadata and the response; a document is removed only if there is one
DeleteMetadata(p) ==
    /\ CanStep(p, "delete_metadata")
    /\ store' = delete_metadata(store, calls[p].upload_id)
    /\ calls' = Upd(p,
          Finished([calls[p] EXCEPT
                        !.writes = IF calls[p].upload_id \in DOMAIN store THEN @ + 1 ELSE @],
                   Response(<<calls[p].upload_id>>)))
    /\ running' = 0
    /\ UNCHANGED <<blob_staged, blob_committed, nextId, ncalls, backend, overlap>>

\* ---------------------------------------------------------------------------
\* the system
\* ---------------------------------------------------------------------------
Next ==
    \E p \in Procs :
        \/ \E r \in InitRequests : InitUploadTooLarge(p, r[1], r[2])
        \/ \E r \in InitRequests : InitUpload(p, r[1], r[2])
        \/ \E u \in UploadIds, i \in ChunkIndices : UploadChunk(p, u, i)
        \/ \E u \in UploadIds : CompleteUpload(p, u)
        \/ \E u \in UploadIds : GetUploadStatus(p, u)
        \/ \E u \in UploadIds : ResumeUpload(p, u)
        \/ \E u \in UploadIds : DeleteUpload(p, u)
        \/ \E u \in UploadIds, op \in {"chunk", "complete", "status", "resume", "delete"} :
              FirstReadStoreDown(p, op, u, 0)
        \/ StageBlockOk(p)
        \/ StageBlockFail(p)
        \/ StageBlockSleep(p)
        \/ AddBlockId(p)
        \/ AddBlockIdSave(p)
        \/ UploadChunkRespond(p)
        \/ CommitBlockListOk(p)
        \/ CommitBlockListFail(p)
        \/ CommitBlockListSleep(p)
        \/ MarkCompleted(p)
        \/ MarkCompletedSave(p)
        \/ DeleteMetadata(p)
        \/ StoreDown(p)

Spec == Init /\ [][Next]_vars

SeqSpec == InitSeq /\ [][Next]_vars

ProgressSpec == InitProgress /\ [][Next]_vars

RaceSpec == InitRace /\ [][Next]_vars

\* ---------------------------------------------------------------------------
\* vocabulary of the properties
\* ---------------------------------------------------------------------------
Done(p) == calls[p].pc = "done"

InFlight(p) == calls[p].pc \notin {"idle", "done"}

Count(b, seq) == Cardinality({k \in 1..Len(seq) : seq[k] = b})

Has(b, seq) == \E k \in 1..Len(seq) : seq[k] = b

NoDuplicates(seq) == \A j, k \in 1..Len(seq) : seq[j] = seq[k] => j = k

BlockOf(c) == BlockId(c.upload_id, c.chunk_index)

Succeeded(c) == c.result.code = 200

SessionNotFound(c) == c.result.code = 404

AlreadyCompleted(c) == c.result.code = 400 /\ c.result.detail = "Upload already completed"

\* the blob call exhausted its attempts: StagingFailed of upload_chunk, CommitFailed of complete_upload
BlobFailed(c) == c.result.code = 500 /\ c.result.detail = "blob"

StoreUnavailable(c) == c.result.code = 500 /\ c.result.detail = "store"

\* updated_metadata was None: a concurrent delete removed the session
SessionVanished(c) ==
    c.result.code = 500 /\ c.result.detail = "NoneType has no attribute progress_percentage"

AllFailed == <<FALSE, FALSE, FALSE>>

FailedTwiceThenOk == <<FALSE, FALSE, TRUE>>

\* the stored session is what the handler read when the call began
Unchanged(c) ==
    /\ c.upload_id \in DOMAIN store
    /\ c.metadata # <<>>
    /\ store[c.upload_id] = to_dict(c.metadata[1])

\* ---------------------------------------------------------------------------
\* C1: with requests served one at a time, a complete_upload on a
\* non-completed session passes the session's filename and its recorded block
\* list, in recorded order, to every commit attempt; when it answers 200 the
\* blob holds exactly that list, the session is completed and blocks_count is
\* the length of the list.  A complete_upload on a completed session answers
\* "already completed" and makes no commit attempt and no write.
\* ---------------------------------------------------------------------------
C1_CompleteCommitsRecordedOrder ==
    \A p \in Procs :
        LET c == calls[p]
            u == c.upload_id
        IN  (Done(p) /\ c.op = "complete" /\ c.metadata # <<>>) =>
                /\ u \in DOMAIN store
                /\ store[u].block_ids = c.metadata[1].block_ids
                /\ IF c.metadata[1].completed
                   THEN AlreadyCompleted(c) /\ c.outcomes = <<>> /\ c.sent = <<>> /\ c.writes = 0
                   ELSE /\ c.outcomes # <<>>
                        /\ c.sent = <<store[u].filename, store[u].block_ids>>
                        /\ Succeeded(c) =>
                              /\ Count(TRUE, c.outcomes) = 1
                              /\ blob_committed[store[u].filename] = <<store[u].block_ids>>
                              /\ store[u].completed
                              /\ c.result.body[4] = Len(store[u].block_ids)

C1_Witness ==
    \E p \in Procs :
        /\ Done(p) /\ calls[p].op = "complete" /\ AlreadyCompleted(calls[p])
        /\ calls[p].upload_id \in DOMAIN store
        /\ Len(store[calls[p].upload_id].block_ids) >= 1
        /\ blob_committed[store[calls[p].upload_id].filename]
              = <<store[calls[p].upload_id].block_ids>>

\* ---------------------------------------------------------------------------
\* C2: once a stored session is completed, its block list never changes while
\* the session exists.
\* ---------------------------------------------------------------------------
C2_CompletedFreezesBlocks ==
    [][\A u \in DOMAIN store :
          (store[u].completed /\ u \in DOMAIN store') =>
              store'[u].block_ids = store[u].block_ids]_vars

\* ---------------------------------------------------------------------------
\* C3 as stated: when an upload_chunk answers 200 the session holds the block
\* id of the call, whatever else runs concurrently.
\* ---------------------------------------------------------------------------
C3_SuccessMeansRecorded ==
    \A p \in Procs :
        (Done(p) /\ calls[p].op = "chunk" /\ Succeeded(calls[p])) =>
            /\ calls[p].upload_id \in DOMAIN store
            /\ Has(BlockOf(calls[p]), store[calls[p].upload_id].block_ids)

\* the store's read-modify-write calls cannot interleave: FileStorage, or
\* clients that do not overlap their requests
StoreCallsSerial == backend = "file" \/ ~overlap

\* C3 amended: with store calls that cannot interleave, when an upload_chunk
\* answers 200 the session holds the block id of the call, and no block id
\* ever leaves the block list of a session that stays in the store; other
\* upload_chunk calls of the session may be in flight.
C3_RecordedAndKept ==
    /\ [](StoreCallsSerial => C3_SuccessMeansRecorded)
    /\ [][StoreCallsSerial =>
            \A u \in (DOMAIN store) \cap (DOMAIN store') :
                \A k \in 1..Len(store[u].block_ids) :
                    Has(store[u].block_ids[k], store'[u].block_ids)]_vars

C3_Witness ==
    \E p, q \in Procs :
        /\ backend = "file" /\ overlap
        /\ Done(p) /\ calls[p].op = "chunk" /\ Succeeded(calls[p])
        /\ InFlight(q) /\ calls[q].op = "chunk"
        /\ calls[q].upload_id = calls[p].upload_id
        /\ calls[q].chunk_index # calls[p].chunk_index

\* ---------------------------------------------------------------------------
\* C4: with requests served one at a time, after an upload_chunk answers 200
\* the block list holds the call's block id exactly once, and when the block
\* id was already recorded before the call the list is what it was.
\* ---------------------------------------------------------------------------
C4_RestageKeepsOneEntry ==
    \A p \in Procs :
        LET c == calls[p]
        IN  (Done(p) /\ c.op = "chunk" /\ Succeeded(c)) =>
                /\ c.upload_id \in DOMAIN store
                /\ Count(BlockOf(c), store[c.upload_id].block_ids) = 1
                /\ Has(BlockOf(c), c.metadata[1].block_ids) =>
                      store[c.upload_id].block_ids = c.metadata[1].block_ids

C4_Witness ==
    \E p \in Procs :
        /\ Done(p) /\ calls[p].op = "chunk" /\ Succeeded(calls[p])
        /\ Has(BlockOf(calls[p]), calls[p].metadata[1].block_ids)
        /\ Len(store[calls[p].upload_id].block_ids) = 1

\* ---------------------------------------------------------------------------
\* C5: in every reachable state, under every interleaving, no stored session
\* lists a block id twice.
\* ---------------------------------------------------------------------------
C5_NoDuplicateBlockIds ==
    \A u \in DOMAIN store : NoDuplicates(store[u].block_ids)

\* two upload_chunk calls of one chunk index race: one has saved the block id,
\* the other is about to save the list it read before
C5_Witness ==
    \E p \in Procs :
        /\ calls[p].pc = "add_block_id_save"
        /\ calls[p].upload_id \in DOMAIN store
        /\ Has(BlockOf(calls[p]), store[calls[p].upload_id].block_ids)

\* ---------------------------------------------------------------------------
\* C6: an upload_chunk whose stage_block failed on all 3 attempts answers 500
\* with the blob error and has written nothing to the store; when no other
\* request overlaps it, the stored session is what it was before the call.
\* ---------------------------------------------------------------------------
C6_ExhaustedStageLeavesSession ==
    \A p \in Procs :
        LET c == calls[p]
        IN  (Done(p) /\ c.op = "chunk" /\ c.outcomes = AllFailed) =>
                /\ BlobFailed(c)
                /\ c.writes = 0
                /\ ~overlap => Unchanged(c) /\ ~store[c.upload_id].completed

C6_Witness ==
    \E p \in Procs :
        /\ Done(p) /\ calls[p].op = "chunk" /\ calls[p].outcomes = AllFailed
        /\ BlobFailed(calls[p])
        /\ ~overlap
        /\ Len(store[calls[p].upload_id].block_ids) = 1

\* ---------------------------------------------------------------------------
\* C7: an upload_chunk whose stage_block failed twice and then succeeded
\* never answers with a blob error: unless a store call of its own raises (or
\* a concurrent delete removed the session) it answers 200, and with store
\* calls that cannot interleave the block id is then recorded exactly once.
\* ---------------------------------------------------------------------------
C7_ThirdAttemptSuccess ==
    \A p \in Procs :
        LET c == calls[p]
        IN  (Done(p) /\ c.op = "chunk" /\ c.outcomes = FailedTwiceThenOk) =>
                /\ ~BlobFailed(c)
                /\ c.result.err_attempt = 0
                /\ Succeeded(c) \/ StoreUnavailable(c) \/ (overlap /\ SessionVanished(c))
                /\ c.writes <= 1
                /\ (Succeeded(c) /\ StoreCallsSerial) =>
                      Count(BlockOf(c), store[c.upload_id].block_ids) = 1

C7_Witness ==
    \E p \in Procs :
        /\ Done(p) /\ calls[p].op = "chunk" /\ calls[p].outcomes = FailedTwiceThenOk
        /\ Succeeded(calls[p])
        /\ calls[p].writes = 1
        /\ calls[p].sleeps = <<1, 2>>

\* ---------------------------------------------------------------------------
\* C8: a stage_block or commit_block_list call makes at most 3 attempts and
\* none after a successful one; the handler goes on past it only after an
\* attempt succeeded (so at least one was made), and the call raises exactly
\* when its 3 attempts all failed, with the error of the 3rd.
\* ---------------------------------------------------------------------------
InBlobCall(c) == c.pc \in {"stage", "stage_sleep", "commit", "commit_sleep"}

PastBlobCall(c) ==
    \/ c.pc \in {"add_block_id", "add_block_id_save", "updated_metadata",
                 "mark_completed", "mark_completed_save"}
    \/ c.pc = "done" /\ c.op \in {"chunk", "complete"} /\ Succeeded(c)

C8_AtMostThreeAttempts ==
    \A p \in Procs :
        LET c == calls[p]
            n == Len(c.outcomes)
        IN  /\ n <= MaxRetries
            /\ \A k \in 1..(n - 1) : c.outcomes[k] = FALSE
            /\ InBlobCall(c) => (n = 0 \/ c.outcomes[n] = FALSE) /\ n < MaxRetries
            /\ PastBlobCall(c) => n >= 1 /\ c.outcomes[n] = TRUE
            /\ (Done(p) /\ BlobFailed(c)) =>
                  c.outcomes = AllFailed /\ c.result.err_attempt = MaxRetries
            /\ (Done(p) /\ n >= 1 /\ c.outcomes[n] = FALSE) => BlobFailed(c)
            /\ (Done(p) /\ c.op \in {"chunk", "complete"} /\ c.metadata # <<>>
                  /\ ~c.metadata[1].completed) => n >= 1

C8_Witness ==
    \E p \in Procs :
        /\ Done(p) /\ calls[p].op = "complete"
        /\ calls[p].outcomes = AllFailed
        /\ calls[p].result.err_attempt = 3

\* ---------------------------------------------------------------------------
\* C9: a complete_upload whose commit_block_list failed on all attempts
\* answers 500 with the blob error and has written nothing; when no other
\* request overlaps it the stored session is unchanged and not completed, and
\* an upload_chunk or complete_upload arriving next passes its checks.
\* ---------------------------------------------------------------------------
C9_ExhaustedCommitKeepsResumable ==
    \A p \in Procs :
        LET c == calls[p]
        IN  (Done(p) /\ c.op = "complete" /\ c.outcomes = AllFailed) =>
                /\ BlobFailed(c)
                /\ c.writes = 0
                /\ ~overlap =>
                      /\ Unchanged(c)
                      /\ ~store[c.upload_id].completed
                      /\ \A i \in ChunkIndices :
                            FirstRead(NewCall("chunk", c.upload_id, i), "stage").pc = "stage"
                      /\ FirstRead(NewCall("complete", c.upload_id, 0), "commit").pc = "commit"

C9_Witness ==
    \E p \in Procs :
        /\ Done(p) /\ calls[p].op = "complete" /\ calls[p].outcomes = AllFailed
        /\ BlobFailed(calls[p])
        /\ ~overlap
        /\ Len(store[calls[p].upload_id].block_ids) = 1

\* ---------------------------------------------------------------------------
\* C10: with requests served one at a time, whenever an upload_chunk on an
\* existing session answers with a failure, the session's block list is what
\* it was before the call.
\* ---------------------------------------------------------------------------
C10_FailedChunkAppendsNothing ==
    \A p \in Procs :
        LET c == calls[p]
        IN  (Done(p) /\ c.op = "chunk" /\ ~Succeeded(c) /\ c.metadata # <<>>) =>
                /\ c.upload_id \in DOMAIN store
                /\ store[c.upload_id].block_ids = c.metadata[1].block_ids

\* ---------------------------------------------------------------------------
\* vocabulary of the properties about one request
\* ---------------------------------------------------------------------------

\* a request arrives in this step, and the handler slot that serves it
Arrived == ncalls' = ncalls + 1

StartSlot == CHOOSE p \in Procs : Free(p) /\ \A q \in Procs : q < p => ~Free(q)

SessionOps == {"chunk", "complete", "status", "resume", "delete"}

BlobUntouched == blob_staged' = blob_staged /\ blob_committed' = blob_committed

\* ---------------------------------------------------------------------------
\* C11: an upload_chunk, complete_upload, get_upload_status, resume_upload or
\* delete_upload that arrives for an upload id with no session in the store
\* (never created, or deleted) answers 404 "session not found", unless its
\* store read itself fails; it makes no blob call and no store write, and the
\* store and the blob backend are left as they were.  After a delete_upload
\* has answered 200 the session is absent.
\* ---------------------------------------------------------------------------
C11_AbsentSessionNotFound ==
    /\ [][Arrived =>
            LET c == calls'[StartSlot]
            IN  (c.op \in SessionOps /\ c.upload_id \notin DOMAIN store) =>
                    /\ c.pc = "done"
                    /\ SessionNotFound(c) \/ StoreUnavailable(c)
                    /\ c.outcomes = <<>> /\ c.sent = <<>> /\ c.writes = 0
                    /\ store' = store
                    /\ BlobUntouched]_vars
    /\ [](\A p \in Procs :
            (Done(p) /\ calls[p].op = "delete" /\ Succeeded(calls[p]) /\ ~overlap) =>
                calls[p].upload_id \notin DOMAIN store)

\* a chunk is refused for a session that existed (a block of it was staged)
\* and was deleted
C11_Witness ==
    \E p \in Procs :
        /\ Done(p) /\ calls[p].op = "chunk" /\ SessionNotFound(calls[p])
        /\ calls[p].upload_id \notin DOMAIN store
        /\ \E b \in blob_staged : b[2][1] = calls[p].upload_id

\* ---------------------------------------------------------------------------
\* C12: an upload_chunk that passed its existence check and staged its block
\* answers 200 or 404 "session not found" (a failing store call of its own
\* aside), also when a delete_upload removed the session meanwhile.
\* ---------------------------------------------------------------------------
C12_DeleteDuringStageToleratedOrGuarded ==
    \A p \in Procs :
        LET c == calls[p]
        IN  (Done(p) /\ c.op = "chunk" /\ Has(TRUE, c.outcomes) /\ ~StoreUnavailable(c)) =>
                Succeeded(c) \/ SessionNotFound(c)

\* ---------------------------------------------------------------------------
\* C13: an upload_chunk or complete_upload that arrives for a stored session
\* whose completed flag is true answers 400 "already completed" (unless its
\* store read itself fails), makes no blob call and no store write, and leaves
\* the store and the blob backend as they were.  The existence test comes
\* first: for an absent session the answer is "session not found", and
\* "already completed" is only ever answered for a stored, completed session.
\* ---------------------------------------------------------------------------
C13_CompletedSessionRefuses ==
    [][Arrived =>
          LET c == calls'[StartSlot]
              present == c.upload_id \in DOMAIN store
          IN  c.op \in {"chunk", "complete"} =>
                  /\ (present /\ store[c.upload_id].completed) =>
                        /\ c.pc = "done"
                        /\ AlreadyCompleted(c) \/ StoreUnavailable(c)
                        /\ c.outcomes = <<>> /\ c.sent = <<>> /\ c.writes = 0
                        /\ store' = store
                        /\ BlobUntouched
                  /\ ~present =>
                        /\ c.pc = "done"
                        /\ SessionNotFound(c) \/ StoreUnavailable(c)
                  /\ (c.pc = "done" /\ AlreadyCompleted(c)) =>
                        present /\ store[c.upload_id].completed]_vars

C13_Witness ==
    \E p \in Procs :
        /\ Done(p) /\ calls[p].op = "chunk" /\ AlreadyCompleted(calls[p])
        /\ calls[p].upload_id \in DOMAIN store
        /\ store[calls[p].upload_id].completed
        /\ calls[p].outcomes = <<>>

\* ---------------------------------------------------------------------------
\* C14: an init_upload whose file_size is not above the maximum answers 200
\* (unless the store write fails).  It then has persisted one new session with
\* no block ids, completed = false, the configured chunk size and the
\* request's filename and size, under an upload id that no earlier call got
\* (ids are handed out in generation order, so: not below nextId) and that is
\* not in the store; every other session is untouched, the blob backend is
\* untouched, and the response carries that id and the configured chunk size.
\* ---------------------------------------------------------------------------
C14_InitCreatesFreshSession ==
    /\ [][Arrived =>
            LET c == calls'[StartSlot]
                u == c.result.body[1]
            IN  (c.op = "init" /\ c.request[2] <= MaxFileSize) =>
                    /\ c.pc = "done"
                    /\ Succeeded(c) \/ StoreUnavailable(c)
                    /\ Succeeded(c) =>
                          /\ u >= nextId /\ u < nextId'
                          /\ u \notin DOMAIN store
                          /\ DOMAIN store' = (DOMAIN store) \cup {u}
                          /\ \A v \in DOMAIN store : store'[v] = store[v]
                          /\ store'[u].upload_id = u
                          /\ store'[u].filename = c.request[1]
                          /\ store'[u].file_size = c.request[2]
                          /\ store'[u].chunk_size = ChunkSize
                          /\ store'[u].block_ids = <<>>
                          /\ store'[u].completed = FALSE
                          /\ c.result.body = <<u, ChunkSize>>
                          /\ BlobUntouched]_vars
    /\ [](\A v \in DOMAIN store : v < nextId)

\* a second session is created after the first one, which had a staged block,
\* was deleted
C14_Witness ==
    \E p \in Procs :
        /\ Done(p) /\ calls[p].op = "init" /\ Succeeded(calls[p])
        /\ calls[p].result.body[1] = 2
        /\ DOMAIN store = {2}
        /\ \E b \in blob_staged : b[2][1] = 1

\* ---------------------------------------------------------------------------
\* C15: an init_upload whose file_size is strictly above the maximum answers
\* 400 "file size exceeds maximum", writes nothing, consumes no upload id and
\* leaves the store and the blob backend as they were; a file_size up to and
\* including the maximum is never answered that way.
\* ---------------------------------------------------------------------------
SizeExceeded(c) ==
    c.result.code = 400 /\ c.result.detail = "File size exceeds maximum allowed"

C15_OversizeRejectedWithoutState ==
    [][Arrived =>
          LET c == calls'[StartSlot]
          IN  c.op = "init" =>
                  /\ c.pc = "done"
                  /\ c.request[2] > MaxFileSize =>
                        /\ SizeExceeded(c)
                        /\ c.writes = 0 /\ c.metadata = <<>>
                        /\ store' = store
                        /\ nextId' = nextId
                        /\ BlobUntouched
                  /\ c.request[2] <= MaxFileSize =>
                        /\ ~SizeExceeded(c)
                        /\ Succeeded(c) \/ StoreUnavailable(c)]_vars

\* a size one above the maximum is refused while a session of exactly the
\* maximum size is in the store
C15_Witness ==
    \E p \in Procs :
        /\ Done(p) /\ calls[p].op = "init" /\ SizeExceeded(calls[p])
        /\ calls[p].request[2] = MaxFileSize + 1
        /\ \E u \in DOMAIN store : store[u].file_size = MaxFileSize

\* ---------------------------------------------------------------------------
\* C16: with requests served one at a time, the block list a complete_upload
\* commits depends only on which chunks were staged, not on the order they
\* arrived in.  A run that stages chunks 0..n-1 in index order commits them in
\* index order, so every committed list that names exactly the chunks 0..n-1
\* names them in index order.
\* ---------------------------------------------------------------------------
C16_CommitOrderIndependentOfArrival ==
    \A f \in Filenames :
        blob_committed[f] # <<>> =>
            LET l == blob_committed[f][1]
            IN  ({l[k][2] : k \in 1..Len(l)} = 0..(Len(l) - 1) /\ NoDuplicates(l)) =>
                    \A j, k \in 1..Len(l) : j < k => l[j][2] < l[k][2]

\* ---------------------------------------------------------------------------
\* C17: with requests served one at a time, a step changes the block list of
\* a stored session only by appending one block id at its end (so every
\* earlier value of the list is a prefix of every later one), and when an
\* upload_chunk has answered 200 the list is the list the call found, with
\* the call's block id appended at the end if it was not in it.
\* ---------------------------------------------------------------------------
C17_BlockIdsGrowInArrivalOrder ==
    /\ [][\A u \in (DOMAIN store) \cap (DOMAIN store') :
            LET old == store[u].block_ids
                new == store'[u].block_ids
            IN  /\ Len(old) <= Len(new) /\ Len(new) <= Len(old) + 1
                /\ \A k \in 1..Len(old) : new[k] = old[k]]_vars
    /\ [](\A p \in Procs :
            LET c == calls[p]
            IN  (Done(p) /\ c.op = "chunk" /\ Succeeded(c)) =>
                    store[c.upload_id].block_ids =
                        IF Has(BlockOf(c), c.metadata[1].block_ids)
                        THEN c.metadata[1].block_ids
                        ELSE Append(c.metadata[1].block_ids, BlockOf(c)))

\* chunk 1 was staged before chunk 0
C17_Witness ==
    \E p \in Procs :
        /\ Done(p) /\ calls[p].op = "chunk" /\ Succeeded(calls[p])
        /\ calls[p].chunk_index = 0
        /\ store[calls[p].upload_id].block_ids
              = <<BlockId(calls[p].upload_id, 1), BlockId(calls[p].upload_id, 0)>>

\* ---------------------------------------------------------------------------
\* vocabulary of the properties about progress; a percentage is a fraction
\* <<numerator, denominator>> with a denominator that is not 0
\* ---------------------------------------------------------------------------
Num(f) == IF f[2] < 0 THEN 0 - f[1] ELSE f[1]

Den(f) == IF f[2] < 0 THEN 0 - f[2] ELSE f[2]

FracLeq(f, g) == Num(f) * Den(g) <= Num(g) * Den(f)

FracEq(f, g) == Num(f) * Den(g) = Num(g) * Den(f)

MinFrac(f, g) == IF FracLeq(f, g) THEN f ELSE g

Percent(n) == <<n, 1>>

\* the progress_percentage of a 200 response of get_upload_status,
\* resume_upload or upload_chunk
ReportsProgress(c) ==
    c.pc = "done" /\ Succeeded(c) /\ c.op \in {"status", "resume", "chunk"}

Reported(c) ==
    CASE c.op = "status" -> c.result.body[1].progress_percentage
      [] c.op = "resume" -> c.result.body[7]
      [] c.op = "chunk" -> c.result.body[3]

\* ---------------------------------------------------------------------------
\* C18: for a session created by an init_upload that passed the size test,
\* with any positive chunk size and any number of block ids, every progress
\* reported lies in [0, 100], and the progress an upload_chunk reports after
\* its append is not below the progress of the session it found.
\* ---------------------------------------------------------------------------
C18_ProgressInRangeAndMonotone ==
    \A p \in Procs :
        LET c == calls[p]
        IN  ReportsProgress(c) =>
                /\ FracLeq(Percent(0), Reported(c))
                /\ FracLeq(Reported(c), Percent(100))
                /\ c.op = "chunk" => FracLeq(progress_percentage(c.metadata[1]), Reported(c))

\* ---------------------------------------------------------------------------
\* C19: the progress a 200 response of get_upload_status, resume_upload or
\* upload_chunk reports is computed from the stored session:
\* min(100, len(block_ids) * chunk_size / file_size * 100) when file_size > 0,
\* and 0 when file_size = 0.  In particular, for a session whose file_size is
\* twice its chunk_size (100 and 50 in the scenario), the progress is 50 with
\* one block recorded and 100 with two, a stage of the first chunk reports 50
\* and leaves one block recorded, a stage of the second reports 100 and leaves
\* two, and a complete_upload on two blocks reports blocks_count = 2.
\* ---------------------------------------------------------------------------
C19_ProgressFormula ==
    \A p \in Procs :
        LET c == calls[p]
            m == store[c.upload_id]
            n == Len(m.block_ids)
        IN  /\ (ReportsProgress(c) /\ c.upload_id \in DOMAIN store) =>
                  /\ m.file_size > 0 =>
                        FracEq(Reported(c),
                               MinFrac(Percent(100), <<n * m.chunk_size * 100, m.file_size>>))
                  /\ m.file_size = 0 => FracEq(Reported(c), Percent(0))
                  /\ (m.file_size > 0 /\ m.file_size = 2 * m.chunk_size) =>
                        /\ n = 1 => FracEq(Reported(c), Percent(50))
                        /\ n = 2 => FracEq(Reported(c), Percent(100))
                        /\ c.op = "chunk" => n = Len(c.metadata[1].block_ids) +
                              (IF Has(BlockOf(c), c.metadata[1].block_ids) THEN 0 ELSE 1)
            /\ (Done(p) /\ c.op = "complete" /\ Succeeded(c)) =>
                  c.result.body[4] = Len(c.metadata[1].block_ids)

\* the second chunk of a file of two chunks has been staged and 100 is reported
C19_Witness ==
    \E p \in Procs :
        /\ ReportsProgress(calls[p]) /\ calls[p].op = "chunk"
        /\ calls[p].upload_id \in DOMAIN store
        /\ store[calls[p].upload_id].file_size = 2 * store[calls[p].upload_id].chunk_size
        /\ Len(calls[p].metadata[1].block_ids) = 1
        /\ Len(store[calls[p].upload_id].block_ids) = 2
        /\ FracEq(progress_percentage(calls[p].metadata[1]), Percent(50))
        /\ FracEq(Reported(calls[p]), Percent(100))

\* ---------------------------------------------------------------------------
\* C20: with requests served one at a time, the progress get_upload_status
\* and resume_upload report for a session whose completed flag is true is 100.
\* ---------------------------------------------------------------------------
C20_CompletedReportsFull ==
    \A p \in Procs :
        LET c == calls[p]
        IN  (ReportsProgress(c) /\ c.op \in {"status", "resume"} /\ c.metadata[1].completed) =>
                FracEq(Reported(c), Percent(100))

\* ---------------------------------------------------------------------------
\* C21: with requests served one at a time, an upload_chunk that answers 200
\* has made exactly one write to the store, also when the block id of its
\* chunk index was recorded before the call.
\* ---------------------------------------------------------------------------
C21_OneWritePerSuccessfulStage ==
    \A p \in Procs :
        (Done(p) /\ calls[p].op = "chunk" /\ Succeeded(calls[p])) => calls[p].writes = 1

\* ---------------------------------------------------------------------------
\* C22: with requests served one at a time, a delete_upload on a stored
\* session, completed or not, removes the session and nothing else: no step
\* of it touches the blob backend or another session, and it makes no stage or
\* commit attempt.  Once it has answered 200 the session is absent, the first
\* read of any later request for the id finds nothing (404), and the id never
\* enters the store again (a session enters the store only under a new id).
\* ---------------------------------------------------------------------------
C22_DeleteRemovesSessionOnly ==
    /\ [](\A p \in Procs :
            LET c == calls[p]
            IN  (Done(p) /\ c.op = "delete" /\ Succeeded(c)) =>
                    /\ c.metadata # <<>>
                    /\ c.upload_id \notin DOMAIN store
                    /\ c.outcomes = <<>> /\ c.sent = <<>> /\ c.writes = 1
                    /\ get_metadata(store, c.upload_id) = <<>>
                    /\ \A i \in ChunkIndices :
                          SessionNotFound(FirstRead(NewCall("chunk", c.upload_id, i), "stage"))
                    /\ SessionNotFound(FirstRead(NewCall("complete", c.upload_id, 0), "commit")))
    /\ [][\A p \in Procs :
            (calls'[p].op = "delete" /\ calls'[p].pc # "idle") =>
                /\ BlobUntouched
                /\ \A v \in (DOMAIN store) \ {calls'[p].upload_id} :
                      v \in DOMAIN store' /\ store'[v] = store[v]
                /\ DOMAIN store' \subseteq DOMAIN store]_vars
    /\ [][\A u \in (DOMAIN store') \ (DOMAIN store) : u >= nextId]_vars

\* a completed session is deleted; its committed blob is still there
C22_Witness ==
    \E p \in Procs :
        /\ Done(p) /\ calls[p].op = "delete" /\ Succeeded(calls[p])
        /\ calls[p].metadata[1].completed
        /\ calls[p].upload_id \notin DOMAIN store
        /\ blob_committed[calls[p].metadata[1].filename] # <<>>

\* ---------------------------------------------------------------------------
\* C23: a get_upload_status or resume_upload answers in the step it arrives
\* in and leaves the store and the blob backend as they were; it makes no
\* write and no blob call.  On a stored session resume_upload answers 200
\* (unless the store read fails) with the session's block ids in stored
\* order, completed_chunks = their number, and the session's chunk size,
\* filename and file size; get_upload_status answers with the stored document.
\* ---------------------------------------------------------------------------
C23_StatusAndResumeArePureReads ==
    [][Arrived =>
          LET c == calls'[StartSlot]
              u == c.upload_id
          IN  c.op \in {"status", "resume"} =>
                  /\ c.pc = "done"
                  /\ store' = store
                  /\ BlobUntouched
                  /\ c.writes = 0 /\ c.outcomes = <<>> /\ c.sent = <<>>
                  /\ u \in DOMAIN store => Succeeded(c) \/ StoreUnavailable(c)
                  /\ (Succeeded(c) /\ c.op = "resume") =>
                        /\ u \in DOMAIN store
                        /\ c.result.body[1] = u
                        /\ c.result.body[2] = store[u].filename
                        /\ c.result.body[3] = store[u].file_size
                        /\ c.result.body[4] = store[u].chunk_size
                        /\ c.result.body[5] = Len(store[u].block_ids)
                        /\ c.result.body[6] = store[u].block_ids
                  /\ (Succeeded(c) /\ c.op = "status") =>
                        /\ u \in DOMAIN store
                        /\ c.result.body[1] = store[u]]_vars

\* a resume lists two block ids in the order they were staged in, chunk 1 first
C23_Witness ==
    \E p \in Procs :
        /\ Done(p) /\ calls[p].op = "resume" /\ Succeeded(calls[p])
        /\ calls[p].result.body[5] = 2
        /\ calls[p].result.body[6]
              = <<BlockId(calls[p].upload_id, 1), BlockId(calls[p].upload_id, 0)>>
        /\ calls[p].result.body[4] = ChunkSize

\* ---------------------------------------------------------------------------
\* C24: a handler whose store call raised has answered 500 with the store's
\* error at that very call: no handler is in flight after a store call of its
\* own raised, so none makes a store call again, and every 500 of the store
\* comes from exactly one failed call.  When the failed call is the first
\* read of an upload_chunk or complete_upload, the handler has made no blob
\* attempt and no write.
\* ---------------------------------------------------------------------------
C24_StoreFailureSurfacedNotRetried ==
    \A p \in Procs :
        LET c == calls[p]
        IN  /\ c.store_errors <= 1
            /\ c.store_errors = 1 => Done(p) /\ StoreUnavailable(c)
            /\ (Done(p) /\ StoreUnavailable(c)) => c.store_errors = 1
            /\ (c.store_errors = 1 /\ c.op \in {"chunk", "complete"} /\ c.metadata = <<>>) =>
                  c.outcomes = <<>> /\ c.sent = <<>> /\ c.sleeps = <<>> /\ c.writes = 0

\* the first read of a complete_upload fails for a session with a staged block
C24_Witness ==
    \E p \in Procs :
        /\ Done(p) /\ calls[p].op = "complete" /\ StoreUnavailable(calls[p])
        /\ calls[p].metadata = <<>>
        /\ calls[p].upload_id \in DOMAIN store
        /\ Len(store[calls[p].upload_id].block_ids) >= 1
        /\ blob_committed = [f \in Filenames |-> <<>>]

\* ---------------------------------------------------------------------------
\* C25: within one stage_block or commit_block_list call the k-th backoff
\* sleep lasts 2^(k-1) time units (1, then 2); every failed attempt but the
\* third is followed by exactly one sleep, and no sleep follows the third
\* failure or a success, so a call sleeps at most twice.
\* ---------------------------------------------------------------------------
RECURSIVE Pow2(_)
Pow2(k) == IF k <= 0 THEN 1 ELSE 2 * Pow2(k - 1)

Failures(c) == Count(FALSE, c.outcomes)

Sleeping(c) == c.pc \in {"stage_sleep", "commit_sleep"}

C25_BackoffDoubles ==
    \A p \in Procs :
        LET c == calls[p]
            slept == Len(c.sleeps)
        IN  /\ \A k \in 1..slept : c.sleeps[k] = 1 * Pow2(k - 1)
            /\ slept <= 2
            /\ Sleeping(c) =>
                  /\ Failures(c) < 3
                  /\ slept = Failures(c) - 1
                  /\ c.retry_delay = 1 * Pow2(Failures(c) - 1)
            /\ c.pc \in {"stage", "commit"} => slept = Failures(c)
            /\ Has(TRUE, c.outcomes) => slept = Failures(c)
            /\ Failures(c) = 3 => slept = 2 /\ ~Sleeping(c) /\ Done(p)

\* a commit that succeeded on its third attempt, after sleeps of 1 and 2
C25_Witness ==
    \E p \in Procs :
        /\ Done(p) /\ calls[p].op = "complete" /\ Succeeded(calls[p])
        /\ calls[p].outcomes = FailedTwiceThenOk
        /\ calls[p].sleeps = <<1, 2>>

\* ---------------------------------------------------------------------------
\* C26: a handler that is inside stage_block or commit_block_list (waiting
\* for the blob call or in a backoff sleep) never holds the event loop: the
\* loop is free, or held by another handler that is in flight, so the other
\* handlers take their steps and new requests are admitted while it waits.
\* The attempt number of a call counts the sleeps and failures of that call
\* alone.
\* ---------------------------------------------------------------------------
C26_RetryDoesNotBlockOthers ==
    \A p \in Procs :
        LET c == calls[p]
        IN  /\ InBlobCall(c) =>
                  /\ running # p
                  /\ running = 0 \/ InFlight(running)
                  /\ \A q \in Procs \ {p} :
                        (InFlight(q) /\ running \in {0, q}) => CanStep(q, calls[q].pc)
                  /\ (overlap /\ running = 0 /\ ncalls < MaxCalls /\ \E q \in Procs : Free(q)) =>
                        CanStart(StartSlot)
            /\ c.attempt = Len(c.sleeps)
            /\ InBlobCall(c) => Failures(c) = c.attempt + (IF Sleeping(c) THEN 1 ELSE 0)

\* a chunk of another session was staged at its first attempt, start to
\* finish, while a stage_block that failed twice is in its second sleep
C26_Witness ==
    \E p, q \in Procs :
        /\ calls[p].pc = "stage_sleep" /\ calls[p].outcomes = <<FALSE, FALSE>>
        /\ calls[p].attempt = 1
        /\ Done(q) /\ calls[q].op = "chunk" /\ Succeeded(calls[q])
        /\ calls[q].upload_id # calls[p].upload_id
        /\ calls[q].outcomes = <<TRUE>> /\ calls[q].attempt = 0

\* ---------------------------------------------------------------------------
\* C27: the block id upload_chunk derives is a function of
\* (upload_id, chunk_index) that never gives one block id to two different
\* pairs: over every upload id text and every chunk index of the bounded
\* sets, and for the pairs of the blocks that were staged, equal block ids
\* mean equal pairs.
\* ---------------------------------------------------------------------------
DerivedIdsDistinct ==
    Cardinality({EncodedBlockId(pair[1], pair[2]) : pair \in Texts \X Indices})
        = Cardinality(Texts \X Indices)

StagedPairs == {b[2] : b \in blob_staged}

C27_BlockIdDeterminedByPair ==
    /\ DerivedIdsDistinct
    /\ \A x, y \in StagedPairs :
          (EncodedBlockId(IdText(x[1]), x[2]) = EncodedBlockId(IdText(y[1]), y[2])) <=> (x = y)

\* two chunks of one session have been staged
C27_Witness ==
    \E x, y \in StagedPairs :
        /\ x[1] = y[1] /\ x[2] # y[2]
        /\ EncodedBlockId(IdText(x[1]), x[2]) # EncodedBlockId(IdText(y[1]), y[2])
        /\ EncodedBlockId(IdText(x[1]), x[2]) = <<12, 21, 60, 48>>

\* ---------------------------------------------------------------------------
\* C28: with requests served one at a time, a stored session keeps the
\* upload id, filename, file size, chunk size and timestamp init_upload gave
\* it for as long as it is stored.  The block list changes only in the save
\* of add_block_id, which leaves completed as it was; completed changes only
\* in the save of mark_completed, to true, which leaves the block list as it
\* was.
\* ---------------------------------------------------------------------------
C28_ImmutableFieldsKept ==
    /\ [][\A u \in (DOMAIN store) \cap (DOMAIN store') :
            /\ store'[u].upload_id = store[u].upload_id
            /\ store'[u].filename = store[u].filename
            /\ store'[u].file_size = store[u].file_size
            /\ store'[u].chunk_size = store[u].chunk_size
            /\ store'[u].timestamp = store[u].timestamp
            /\ store'[u].block_ids # store[u].block_ids =>
                  /\ store'[u].completed = store[u].completed
                  /\ \E p \in Procs :
                        calls[p].pc = "add_block_id_save" /\ calls[p].upload_id = u
            /\ store'[u].completed # store[u].completed =>
                  /\ store'[u].completed = TRUE
                  /\ store'[u].block_ids = store[u].block_ids
                  /\ \E p \in Procs :
                        calls[p].pc = "mark_completed_save" /\ calls[p].upload_id = u]_vars
    /\ [](\A u \in DOMAIN store :
            /\ store[u].upload_id = u
            /\ store[u].chunk_size = ChunkSize
            /\ <<store[u].filename, store[u].file_size>> \in InitRequests)

\* a session with a staged block was completed and then read by a status request
C28_Witness ==
    \E p \in Procs :
        /\ Done(p) /\ calls[p].op = "status" /\ Succeeded(calls[p])
        /\ calls[p].result.body[1].completed
        /\ Len(calls[p].result.body[1].block_ids) = 1
        /\ calls[p].result.body[1].file_size = MaxFileSize

\* ---------------------------------------------------------------------------
\* C29: for an upload id with no stored session get_metadata returns the
\* absent result and delete_metadata returns the store as it is.  A
\* delete_upload whose session was removed between its read and its
\* delete_metadata call still answers 200 and leaves the store as it was; a
\* request arriving for an id with no session leaves the store as it was.
\* ---------------------------------------------------------------------------
C29_AbsentGetAndDeleteAreQuiet ==
    /\ [](\A u \in UploadIds \ DOMAIN store :
            /\ get_metadata(store, u) = <<>>
            /\ delete_metadata(store, u) = store)
    /\ [](\A p \in Procs :
            (Done(p) /\ calls[p].op = "delete" /\ Succeeded(calls[p]) /\ calls[p].writes = 0) =>
                calls[p].upload_id \notin DOMAIN store)
    /\ [][\A p \in Procs :
            (/\ calls[p].pc = "delete_metadata"
             /\ calls[p].upload_id \notin DOMAIN store
             /\ calls'[p].pc = "done"
             /\ ~StoreUnavailable(calls'[p])) =>
                /\ store' = store
                /\ Succeeded(calls'[p])
                /\ calls'[p].writes = 0]_vars
    /\ [][Arrived =>
            LET c == calls'[StartSlot]
            IN  (c.op = "delete" /\ c.upload_id \notin DOMAIN store /\ ~StoreUnavailable(c)) =>
                    SessionNotFound(c) /\ store' = store]_vars

\* of two overlapping delete_upload requests the second called delete_metadata
\* after the first had removed the session, while another session was stored
C29_Witness ==
    \E p \in Procs :
        /\ Done(p) /\ calls[p].op = "delete" /\ Succeeded(calls[p])
        /\ calls[p].writes = 0
        /\ calls[p].upload_id \notin DOMAIN store
        /\ store # <<>>

\* ---------------------------------------------------------------------------
\* C30: for an upload id with no stored session add_block_id and
\* mark_completed find nothing to save and get_block_ids returns the empty
\* list.  When a handler reaches add_block_id or mark_completed after its
\* session was removed, the call goes on without a save: the store stays as
\* it was, no session appears and the request has made no write more.  For a
\* stored session get_block_ids returns the stored list.
\* ---------------------------------------------------------------------------
C30_AbsentAppendAndMarkWriteNothing ==
    /\ [](\A u \in UploadIds :
            IF u \in DOMAIN store
            THEN get_block_ids(store, u) = store[u].block_ids
            ELSE /\ \A i \in ChunkIndices : add_block_id(store, u, BlockId(u, i)) = <<>>
                 /\ mark_completed(store, u) = <<>>
                 /\ get_block_ids(store, u) = <<>>)
    /\ [][\A p \in Procs :
            (/\ calls[p].pc \in {"add_block_id", "mark_completed"}
             /\ calls[p].upload_id \notin DOMAIN store
             /\ calls'[p].pc # calls[p].pc
             /\ ~StoreUnavailable(calls'[p])) =>
                /\ store' = store
                /\ calls'[p].writes = calls[p].writes
                /\ calls'[p].local = <<>>
                /\ calls'[p].pc = IF calls[p].pc = "add_block_id"
                                  THEN "updated_metadata" ELSE "done"]_vars
    /\ [](\A p \in Procs :
            (Done(p) /\ calls[p].op = "complete" /\ Succeeded(calls[p]) /\ calls[p].writes = 0) =>
                calls[p].upload_id \notin DOMAIN store)

\* a complete_upload committed its blocks, found its session deleted when it
\* called mark_completed, and answered without a write; another session is
\* stored and no session was created for the id
C30_Witness ==
    \E p \in Procs :
        /\ Done(p) /\ calls[p].op = "complete" /\ Succeeded(calls[p])
        /\ Has(TRUE, calls[p].outcomes)
        /\ calls[p].writes = 0
        /\ calls[p].upload_id \notin DOMAIN store
        /\ store # <<>>
        /\ get_block_ids(store, calls[p].upload_id) = <<>>

\* ---------------------------------------------------------------------------
\* storage.py: FileStorage and RedisStorage as they keep their documents.
\* FileStorage keeps one file per upload id, RedisStorage one key per upload
\* id; both hold the JSON of to_dict.  Each operator is a whole method call.
\* ---------------------------------------------------------------------------
StorageDir == <<".", "u", "p", "l", "o", "a", "d", "s", "_", "s", "t", "a", "t", "e">>

\* os.path.join(self.storage_dir, f"{upload_id}.json")
FilePath(upload_id) == StorageDir \o <<"/">> \o IdText(upload_id) \o <<".", "j", "s", "o", "n">>

\* mutant: every upload id gets the same key
RedisKey_NoId(upload_id) == <<"u", "p", "l", "o", "a", "d", ":">>

\* key = f"upload:{upload_id}"
RedisKey(upload_id) == <<"u", "p", "l", "o", "a", "d", ":">> \o IdText(upload_id)

FileStorage_save_metadata(fs, m) ==
    LET file_path == FilePath(m.upload_id)
    IN  [f \in (DOMAIN fs) \cup {file_path} |-> IF f = file_path THEN to_dict(m) ELSE fs[f]]

FileStorage_get_metadata(fs, upload_id) ==
    LET file_path == FilePath(upload_id)
    IN  IF file_path \notin DOMAIN fs THEN <<>> ELSE <<from_dict(fs[file_path])>>

FileStorage_delete_metadata(fs, upload_id) ==
    LET file_path == FilePath(upload_id)
    IN  IF file_path \in DOMAIN fs THEN [f \in (DOMAIN fs) \ {file_path} |-> fs[f]] ELSE fs

FileStorage_add_block_id(fs, upload_id, block_id) ==
    LET metadata == FileStorage_get_metadata(fs, upload_id)
    IN  IF metadata # <<>> /\ ~Has(block_id, metadata[1].block_ids)
        THEN FileStorage_save_metadata(fs,
                 [metadata[1] EXCEPT !.block_ids = Append(@, block_id)])
        ELSE fs

FileStorage_get_block_ids(fs, upload_id) ==
    LET metadata == FileStorage_get_metadata(fs, upload_id)
    IN  IF metadata # <<>> THEN metadata[1].block_ids ELSE <<>>

FileStorage_mark_completed(fs, upload_id) ==
    LET metadata == FileStorage_get_metadata(fs, upload_id)
    IN  IF metadata # <<>>
        THEN FileStorage_save_metadata(fs, [metadata[1] EXCEPT !.completed = TRUE])
        ELSE fs

RedisStorage_save_metadata(kv, m) ==
    LET key == RedisKey(m.upload_id)
    IN  [k \in (DOMAIN kv) \cup {key} |-> IF k = key THEN to_dict(m) ELSE kv[k]]

\* redis.get gives None for a missing key; "if not data: return None"
RedisStorage_get_metadata(kv, upload_id) ==
    LET key == RedisKey(upload_id)
        data == IF key \in DOMAIN kv THEN <<kv[key]>> ELSE <<>>
    IN  IF data = <<>> THEN <<>> ELSE <<from_dict(data[1])>>

RedisStorage_delete_metadata(kv, upload_id) ==
    LET key == RedisKey(upload_id)
    IN  [k \in (DOMAIN kv) \ {key} |-> kv[k]]

RedisStorage_add_block_id(kv, upload_id, block_id) ==
    LET metadata == RedisStorage_get_metadata(kv, upload_id)
    IN  IF metadata # <<>> /\ ~Has(block_id, metadata[1].block_ids)
        THEN RedisStorage_save_metadata(kv,
                 [metadata[1] EXCEPT !.block_ids = Append(@, block_id)])
        ELSE kv

RedisStorage_get_block_ids(kv, upload_id) ==
    LET metadata == RedisStorage_get_metadata(kv, upload_id)
    IN  IF metadata # <<>> THEN metadata[1].block_ids ELSE <<>>

RedisStorage_mark_completed(kv, upload_id) ==
    LET metadata == RedisStorage_get_metadata(kv, upload_id)
    IN  IF metadata # <<>>
        THEN RedisStorage_save_metadata(kv, [metadata[1] EXCEPT !.completed = TRUE])
        ELSE kv

\* the directory and the key space that hold the documents of a store
FileImage(s) ==
    [f \in {FilePath(u) : u \in DOMAIN s} |-> s[CHOOSE u \in DOMAIN s : FilePath(u) = f]]

RedisImage(s) ==
    [k \in {RedisKey(u) : u \in DOMAIN s} |-> s[CHOOSE u \in DOMAIN s : RedisKey(u) = k]]

\* ---------------------------------------------------------------------------
\* the store driven directly: any sequence of calls of its methods, one at a
\* time, the value each call returns kept in the call record
\* ---------------------------------------------------------------------------
InitStore ==
    /\ store = <<>>
    /\ blob_staged = {}
    /\ blob_committed = [f \in Filenames |-> <<>>]
    /\ calls = [p \in Procs |-> IdleCall]
    /\ nextId = 1
    /\ ncalls = 0
    /\ running = 0
    /\ backend = "file"
    /\ overlap = FALSE

StoreCall(method, upload_id, chunk_index, value) ==
    /\ calls' = Upd(1, Finished(NewCall(method, upload_id, chunk_index), Response(value)))
    /\ UNCHANGED <<blob_staged, blob_committed, nextId, ncalls, running, backend, overlap>>

CallSaveMetadata(upload_id, filename) ==
    /\ store' = save_metadata(store,
                    UploadMetadata(upload_id, filename, MaxFileSize, ChunkSize, <<>>, FALSE, upload_id))
    /\ StoreCall("save_metadata", upload_id, 0, <<filename>>)

CallGetMetadata(upload_id) ==
    /\ store' = store
    /\ StoreCall("get_metadata", upload_id, 0, get_metadata(store, upload_id))

CallDeleteMetadata(upload_id) ==
    /\ store' = delete_metadata(store, upload_id)
    /\ StoreCall("delete_metadata", upload_id, 0, <<>>)

CallAddBlockId(upload_id, chunk_index) ==
    /\ LET upd == add_block_id(store, upload_id, BlockId(upload_id, chunk_index))
       IN  store' = IF upd = <<>> THEN store ELSE save_metadata(store, upd[1])
    /\ StoreCall("add_block_id", upload_id, chunk_index, <<>>)

CallGetBlockIds(upload_id) ==
    /\ store' = store
    /\ StoreCall("get_block_ids", upload_id, 0, get_block_ids(store, upload_id))

CallMarkCompleted(upload_id) ==
    /\ LET upd == mark_completed(store, upload_id)
       IN  store' = IF upd = <<>> THEN store ELSE save_metadata(store, upd[1])
    /\ StoreCall("mark_completed", upload_id, 0, <<>>)

StoreNext ==
    \E u \in UploadIds :
        \/ \E f \in Filenames : CallSaveMetadata(u, f)
        \/ CallGetMetadata(u)
        \/ CallDeleteMetadata(u)
        \/ \E i \in ChunkIndices : CallAddBlockId(u, i)
        \/ CallGetBlockIds(u)
        \/ CallMarkCompleted(u)

StoreSpec == InitStore /\ [][StoreNext]_vars

\* ---------------------------------------------------------------------------
\* C31: over every sequence of save_metadata, get_metadata, delete_metadata,
\* add_block_id, get_block_ids and mark_completed calls, FileStorage on its
\* directory and RedisStorage on its keys return the same values and hold
\* the same documents: each call takes the two from the images of one store
\* to the images of one store, and every read of any upload id agrees.
\* ---------------------------------------------------------------------------
C31_FileAndRedisEquivalent ==
    /\ [](\A u \in UploadIds :
            /\ FileStorage_get_metadata(FileImage(store), u)
                  = RedisStorage_get_metadata(RedisImage(store), u)
            /\ FileStorage_get_block_ids(FileImage(store), u)
                  = RedisStorage_get_block_ids(RedisImage(store), u)
            /\ FileStorage_get_metadata(FileImage(store), u) = get_metadata(store, u))
    /\ [][LET c == calls'[1]
              u == c.upload_id
              fs == FileImage(store)
              kv == RedisImage(store)
              m == UploadMetadata(u, c.result.body[1], MaxFileSize, ChunkSize, <<>>, FALSE, u)
              b == BlockId(u, c.chunk_index)
          IN  CASE c.op = "save_metadata" ->
                      /\ FileStorage_save_metadata(fs, m) = FileImage(store')
                      /\ RedisStorage_save_metadata(kv, m) = RedisImage(store')
                [] c.op = "get_metadata" ->
                      /\ FileStorage_get_metadata(fs, u) = c.result.body
                      /\ RedisStorage_get_metadata(kv, u) = c.result.body
                      /\ store' = store
                [] c.op = "delete_metadata" ->
                      /\ FileStorage_delete_metadata(fs, u) = FileImage(store')
                      /\ RedisStorage_delete_metadata(kv, u) = RedisImage(store')
                [] c.op = "add_block_id" ->
                      /\ FileStorage_add_block_id(fs, u, b) = FileImage(store')
                      /\ RedisStorage_add_block_id(kv, u, b) = RedisImage(store')
                [] c.op = "get_block_ids" ->
                      /\ FileStorage_get_block_ids(fs, u) = c.result.body
                      /\ RedisStorage_get_block_ids(kv, u) = c.result.body
                      /\ store' = store
                [] c.op = "mark_completed" ->
                      /\ FileStorage_mark_completed(fs, u) = FileImage(store')
                      /\ RedisStorage_mark_completed(kv, u) = RedisImage(store')]_vars

\* a session with every block recorded was marked completed while another
\* session is stored
C31_Witness ==
    /\ calls[1].op = "mark_completed" /\ calls[1].upload_id = 1
    /\ DOMAIN store = UploadIds
    /\ store[1].completed /\ Len(store[1].block_ids) = NumChunks
    /\ ~store[2].completed
    /\ RedisStorage_get_block_ids(RedisImage(store), 1) = store[1].block_ids

\* ---------------------------------------------------------------------------
\* C32: with requests served one at a time, a complete_upload arriving for a
\* stored, non-completed session with no block recorded goes on to
\* commit_block_list (a failing store read aside); every attempt passes the
\* filename and the empty list; when an attempt succeeds and mark_completed's
\* store calls do not fail, the call answers 200 with blocks_count 0, the
\* blob holds the empty list and the session is completed with no block.
\* ---------------------------------------------------------------------------
C32_EmptyCompleteCommitsEmptyList ==
    /\ [][Arrived =>
            LET c == calls'[StartSlot]
            IN  (/\ c.op = "complete"
                 /\ c.upload_id \in DOMAIN store
                 /\ ~store[c.upload_id].completed
                 /\ store[c.upload_id].block_ids = <<>>
                 /\ ~StoreUnavailable(c)) =>
                    c.pc = "commit" /\ c.metadata[1].block_ids = <<>>]_vars
    /\ [](\A p \in Procs :
            LET c == calls[p]
                u == c.upload_id
            IN  (/\ Done(p) /\ c.op = "complete" /\ c.metadata # <<>>
                 /\ ~c.metadata[1].completed /\ c.metadata[1].block_ids = <<>>) =>
                    /\ c.outcomes # <<>>
                    /\ c.sent = <<c.metadata[1].filename, <<>>>>
                    /\ (Has(TRUE, c.outcomes) /\ ~StoreUnavailable(c)) =>
                          /\ Succeeded(c)
                          /\ c.result.body[4] = 0
                          /\ blob_committed[c.metadata[1].filename] = <<<<>>>>
                          /\ u \in DOMAIN store
                          /\ store[u].completed /\ store[u].block_ids = <<>>
                    /\ Succeeded(c) => Has(TRUE, c.outcomes))

\* a complete_upload of a session with no block answered 200 after one failed
\* commit attempt
C32_Witness ==
    \E p \in Procs :
        /\ Done(p) /\ calls[p].op = "complete" /\ Succeeded(calls[p])
        /\ calls[p].result.body[4] = 0
        /\ calls[p].outcomes = <<FALSE, TRUE>>
        /\ store[calls[p].upload_id].completed
        /\ blob_committed[calls[p].metadata[1].filename] = <<<<>>>>

\* ---------------------------------------------------------------------------
\* C33: whenever a stored session becomes completed, its recorded block list
\* is the list that the successful commit_block_list of the completing
\* request passed to the blob backend, and it stays that list for as long as
\* the session is stored and completed.
\* ---------------------------------------------------------------------------
C33_CompletedListIsCommittedList ==
    [][\A u \in DOMAIN store' :
          /\ (store'[u].completed /\ (u \notin DOMAIN store \/ ~store[u].completed)) =>
                \E p \in Procs :
                    /\ calls[p].upload_id = u
                    /\ calls[p].pc = "mark_completed_save"
                    /\ Has(TRUE, calls[p].outcomes)
                    /\ store'[u].block_ids = calls[p].sent[2]
          /\ (store'[u].completed /\ u \in DOMAIN store /\ store[u].completed) =>
                store'[u].block_ids = store[u].block_ids]_vars

\* ---------------------------------------------------------------------------
\* C34: while a session is stored, its completed flag never goes from true
\* back to false.
\* ---------------------------------------------------------------------------
C34_CompletedIsMonotonic ==
    [][\A u \in (DOMAIN store) \cap (DOMAIN store') :
          store[u].completed => store'[u].completed]_vars

\* ---------------------------------------------------------------------------
\* C35: at most one commit_block_list succeeds for a session.  Stated for the
\* time when one session only was ever created, so that a blob committed
\* under its filename was committed for it: an attempt of complete_upload
\* succeeds only while no blob is committed under the session's filename.
\* ---------------------------------------------------------------------------
C35_AtMostOneCommitPerSession ==
    [][\A p \in Procs :
          (/\ calls[p].pc = "commit"
           /\ calls'[p].pc = "mark_completed"
           /\ nextId = 2) =>
              blob_committed[calls[p].metadata[1].filename] = <<>>]_vars

\* ---------------------------------------------------------------------------
\* C36: in every reachable state, every block id recorded in a stored session
\* has been staged successfully under the session's filename, and every block
\* list a complete_upload passed to commit_block_list holds only block ids
\* staged under the filename it was committed to; a block id enters a stored
\* list only if it is staged already.
\* ---------------------------------------------------------------------------
C36_StagedBeforeRecorded ==
    /\ [](\A u \in DOMAIN store :
            \A k \in 1..Len(store[u].block_ids) :
                <<store[u].filename, store[u].block_ids[k]>> \in blob_staged)
    /\ [](\A p \in Procs :
            (calls[p].op = "complete" /\ calls[p].sent # <<>>) =>
                \A k \in 1..Len(calls[p].sent[2]) :
                    <<calls[p].sent[1], calls[p].sent[2][k]>> \in blob_staged)
    /\ [][\A u \in DOMAIN store' :
            \A k \in 1..Len(store'[u].block_ids) :
                <<store'[u].filename, store'[u].block_ids[k]>> \in blob_staged]_vars

\* a complete_upload passed the two recorded blocks of its session, both
\* staged, to a commit that succeeded
C36_Witness ==
    \E p \in Procs :
        /\ Done(p) /\ calls[p].op = "complete" /\ Succeeded(calls[p])
        /\ Len(calls[p].sent[2]) = 2
        /\ \A k \in 1..2 : <<calls[p].sent[1], calls[p].sent[2][k]>> \in blob_staged
        /\ store[calls[p].upload_id].block_ids = calls[p].sent[2]

\* ---------------------------------------------------------------------------
\* C37: an upload id that was given out and has no stored session (its
\* session was deleted) never has a stored session again.
\* ---------------------------------------------------------------------------
C37_NoResurrection ==
    [][\A u \in UploadIds :
          (u < nextId /\ u \notin DOMAIN store) => u \notin DOMAIN store']_vars

\* ---------------------------------------------------------------------------
\* a resuming client: one session, never cancelled, requests sent one at a
\* time.  The client sends the chunks in index order, sends a chunk again
\* while its upload_chunk fails, and then sends complete_upload until it
\* succeeds.  Its position is the response in handler slot 1.
\* ---------------------------------------------------------------------------
\* an interrupted upload: session 1 with its first chunks staged and recorded
InitResume ==
    \E block_ids \in InOrderLists(1) :
        /\ store = save_metadata(<<>>,
                       UploadMetadata(1, "f2", MaxFileSize, ChunkSize, block_ids, FALSE, 1))
        /\ blob_staged = {<<"f2", block_ids[k]>> : k \in 1..Len(block_ids)}
        /\ blob_committed = [f \in Filenames |-> <<>>]
        /\ calls = [p \in Procs |-> IdleCall]
        /\ nextId = 2
        /\ ncalls = 0
        /\ running = 0
        /\ backend \in Backends
        /\ overlap = FALSE

\* the chunk the client sends next; NumChunks when all chunks were accepted
NextChunk ==
    LET c == calls[1]
    IN  IF c.pc = "idle" THEN 0
        ELSE IF c.op = "chunk" THEN (IF Succeeded(c) THEN c.chunk_index + 1 ELSE c.chunk_index)
        ELSE NumChunks

ClientReady == running = 0 /\ \A p \in Procs : Free(p)

ClientFinished == Done(1) /\ calls[1].op = "complete" /\ Succeeded(calls[1])

ClientRequest(c) ==
    /\ calls' = Upd(1, c)
    /\ UNCHANGED <<store, blob_staged, blob_committed, nextId, ncalls, running, backend, overlap>>

\* the client sends, or sends again, the next chunk
ClientStageChunk ==
    /\ ClientReady /\ NextChunk < NumChunks
    /\ ClientRequest(FirstRead(NewCall("chunk", 1, NextChunk), "stage"))

\* the same request when the handler's first store read raises
ClientStageChunkStoreDown ==
    /\ ClientReady /\ NextChunk < NumChunks
    /\ ClientRequest(StoreFailed(NewCall("chunk", 1, NextChunk)))

\* the client sends, or sends again, complete_upload
ClientComplete ==
    /\ ClientReady /\ NextChunk = NumChunks /\ ~ClientFinished
    /\ ClientRequest(FirstRead(NewCall("complete", 1, 0), "commit"))

ClientCompleteStoreDown ==
    /\ ClientReady /\ NextChunk = NumChunks /\ ~ClientFinished
    /\ ClientRequest(StoreFailed(NewCall("complete", 1, 0)))

ResumeNext ==
    \/ ClientStageChunk
    \/ ClientStageChunkStoreDown
    \/ ClientComplete
    \/ ClientCompleteStoreDown
    \/ StageBlockOk(1)
    \/ StageBlockFail(1)
    \/ StageBlockSleep(1)
    \/ AddBlockId(1)
    \/ AddBlockIdSave(1)
    \/ UploadChunkRespond(1)
    \/ CommitBlockListOk(1)
    \/ CommitBlockListFail(1)
    \/ CommitBlockListSleep(1)
    \/ MarkCompleted(1)
    \/ MarkCompletedSave(1)
    \/ StoreDown(1)

\* the blob backend and the store fail again and again but not for ever: a
\* call that is tried infinitely often succeeds infinitely often; sleeps end
ResumeFairness ==
    /\ SF_vars(ClientStageChunk)
    /\ SF_vars(ClientComplete)
    /\ SF_vars(StageBlockOk(1))
    /\ WF_vars(StageBlockSleep(1))
    /\ SF_vars(AddBlockId(1))
    /\ SF_vars(AddBlockIdSave(1))
    /\ SF_vars(UploadChunkRespond(1))
    /\ SF_vars(CommitBlockListOk(1))
    /\ WF_vars(CommitBlockListSleep(1))
    /\ SF_vars(MarkCompleted(1))
    /\ SF_vars(MarkCompletedSave(1))

ResumeSpec == InitResume /\ [][ResumeNext]_vars /\ ResumeFairness

\* the committed blob of the session holds the block id of every chunk once
CommittedEveryChunkOnce ==
    /\ blob_committed["f2"] # <<>>
    /\ Len(blob_committed["f2"][1]) = NumChunks
    /\ \A i \in ChunkIndices : Count(BlockId(1, i), blob_committed["f2"][1]) = 1

\* ---------------------------------------------------------------------------
\* C38: when the blob backend and the store do not fail for ever and the
\* client goes on as described, the session is eventually, and from then on,
\* completed and stored, with the block id of every chunk exactly once in its
\* record and in the committed list.
\* ---------------------------------------------------------------------------
C38_ResumingClientCompletes ==
    <>[](/\ 1 \in DOMAIN store
         /\ store[1].completed
         /\ CommittedEveryChunkOnce
         /\ store[1].block_ids = blob_committed["f2"][1])

\* the client's complete_upload succeeded after a failed commit attempt, with
\* every chunk committed once
C38_Witness ==
    /\ ClientFinished
    /\ calls[1].outcomes = <<FALSE, TRUE>>
    /\ store[1].completed
    /\ CommittedEveryChunkOnce

\* ---------------------------------------------------------------------------
\* every call the handlers make returns: a handler that can take a step
\* takes one, whatever the outcome of the call
\* ---------------------------------------------------------------------------
HandlerStep(p) ==
    \/ StageBlockOk(p)
    \/ StageBlockFail(p)
    \/ StageBlockSleep(p)
    \/ AddBlockId(p)
    \/ AddBlockIdSave(p)
    \/ UploadChunkRespond(p)
    \/ CommitBlockListOk(p)
    \/ CommitBlockListFail(p)
    \/ CommitBlockListSleep(p)
    \/ MarkCompleted(p)
    \/ MarkCompletedSave(p)
    \/ DeleteMetadata(p)
    \/ StoreDown(p)

TerminationSpec == InitRace /\ [][Next]_vars /\ \A p \in Procs : WF_vars(HandlerStep(p))

\* ---------------------------------------------------------------------------
\* C39: when every blob call, sleep and store call returns, every
\* upload_chunk and complete_upload that has begun ends with a response.  A
\* call makes at most MaxRetries attempts of its blob call and sleeps at most
\* MaxRetries - 1 times, only after a failed attempt that was not the last;
\* after MaxRetries failures it has answered with the blob error.
\* ---------------------------------------------------------------------------
C39_CallsTerminate ==
    /\ \A p \in Procs : (calls[p].pc \notin {"idle", "done"}) ~> Done(p)
    /\ [](\A p \in Procs :
            LET c == calls[p]
            IN  /\ Len(c.outcomes) <= MaxRetries
                /\ Len(c.sleeps) <= MaxRetries - 1
                /\ Count(TRUE, c.outcomes) <= 1
                /\ c.pc \in {"stage_sleep", "commit_sleep"} =>
                      /\ ~Has(TRUE, c.outcomes)
                      /\ Len(c.outcomes) < MaxRetries
                      /\ Len(c.sleeps) = Len(c.outcomes) - 1
                /\ c.pc \in {"stage", "commit"} => Len(c.sleeps) = Len(c.outcomes)
                /\ (Len(c.outcomes) = MaxRetries /\ ~Has(TRUE, c.outcomes)) =>
                      Done(p) /\ BlobFailed(c)
                /\ (Done(p) /\ c.op \in {"chunk", "complete"}) =>
                      c.result.code \in {200, 400, 404, 500})

\* a complete_upload ended with the blob error after three failed attempts
\* and two sleeps, while another call is still running
C39_Witness ==
    \E p, q \in Procs :
        /\ Done(p) /\ calls[p].op = "complete" /\ BlobFailed(calls[p])
        /\ calls[p].outcomes = AllFailed
        /\ Len(calls[p].sleeps) = 2
        /\ InFlight(q) /\ calls[q].op = "chunk"

\* f and g agree at key k
SameAt(f, g, k) ==
    /\ k \in DOMAIN f <=> k \in DOMAIN g
    /\ k \in DOMAIN f => f[k] = g[k]

\* the pcs at which a handler is about to write or remove its document
WritePcs == {"add_block_id_save", "mark_completed_save", "delete_metadata"}

\* ---------------------------------------------------------------------------
\* C40: a stored session changes or disappears only in a step of a request
\* made for its own upload id, and a session appears only for the id of the
\* request that writes it, whatever requests for other ids are running.  In
\* FileStorage and in RedisStorage, add_block_id, mark_completed and
\* delete_metadata for one upload id leave the file and the key of every
\* other upload id as they are.
\* ---------------------------------------------------------------------------
C40_SessionIsolation ==
    /\ [][\A b \in DOMAIN store :
            (b \notin DOMAIN store' \/ store'[b] # store[b]) =>
                \E p \in Procs : calls[p].upload_id = b /\ calls[p].pc \in WritePcs]_vars
    /\ [][\A b \in (DOMAIN store') \ (DOMAIN store) :
            \/ \E p \in Procs : calls[p].upload_id = b /\ calls[p].pc \in WritePcs
            \/ \E p \in Procs :
                  calls'[p].op = "init" /\ calls'[p].upload_id = b /\ calls'[p].pc = "done"]_vars
    /\ [](\A a, b \in UploadIds :
            a # b =>
                LET fs == FileImage(store)
                    kv == RedisImage(store)
                IN  /\ \A i \in ChunkIndices :
                          /\ SameAt(fs, FileStorage_add_block_id(fs, a, BlockId(a, i)), FilePath(b))
                          /\ SameAt(kv, RedisStorage_add_block_id(kv, a, BlockId(a, i)), RedisKey(b))
                    /\ SameAt(fs, FileStorage_mark_completed(fs, a), FilePath(b))
                    /\ SameAt(kv, RedisStorage_mark_completed(kv, a), RedisKey(b))
                    /\ SameAt(fs, FileStorage_delete_metadata(fs, a), FilePath(b))
                    /\ SameAt(kv, RedisStorage_delete_metadata(kv, a), RedisKey(b)))

\* an upload_chunk for session 1 recorded its block and answered while an
\* upload_chunk for session 2 is about to save; both sessions are stored
C40_Witness ==
    \E p, q \in Procs :
        /\ Done(p) /\ calls[p].op = "chunk" /\ Succeeded(calls[p])
        /\ calls[p].upload_id = 1 /\ calls[p].writes = 1
        /\ calls[q].op = "chunk" /\ calls[q].upload_id = 2
        /\ calls[q].pc = "add_block_id_save"
        /\ DOMAIN store = {1, 2}
        /\ store[2].block_ids = <<>>

====
